---- MODULE Spec2Model ----
(***************************************************************************)
(* Verification model of the Discord summarizer's collection and summary   *)
(* pipeline:                                                               *)
(*   - DiscordReaderClient._make_request      (rate-limited fetcher)       *)
(*   - DiscordReaderClient.collect_messages   (channel/thread collector)   *)
(*   - SummaryGeneratorService                (summary orchestrator)       *)
(*   - MessageCollectorService                (collection orchestrator)    *)
(*   - SummarySchedulerService                (scheduled and manual runs)  *)
(* Time is counted in half seconds, so 0.5 s = 1, 1 s = 2, 5 s = 10.       *)
(* Python's None is None (a string) where the other values are strings    *)
(* and NoneValue (a record) where they are records; a header or field     *)
(* that is absent is Absent.                                               *)
(***************************************************************************)
EXTENDS Integers, Sequences, FiniteSets, TLC

None == "None"
NoneValue == [kind |-> "None"]
Absent == -1

Max(a, b) == IF a >= b THEN a ELSE b

Last(s) == s[Len(s)]

RECURSIVE SumSeq(_)
SumSeq(s) == IF s = <<>> THEN 0 ELSE Head(s) + SumSeq(Tail(s))

(***************************************************************************)
(* Bounds of the model (not program constants).                            *)
(***************************************************************************)
\* HTTP sends within one request() call that the server may answer with 429
MaxSends == 3
\* request() calls made one after the other on the same client
MaxCalls == 2
\* records in one page (the code asks for limit=100)
PageLimit == 2
\* non-empty pages a finite source holds for the threads of a channel
MaxPages == 2
\* threads in the active-threads list
MaxThreads == 2
\* 429 answers the source gives during one collection
MaxRateLimited == 1
\* messages in one collected list handed to the summary generator
MaxMessages == 2
\* channels configured or found in the guild
MaxChannels == 2
\* executions of generate_and_post_summaries started by one trigger
MaxRuns == 2
\* words in a channel label
MaxWords == 2
\* characters in a formatted text, and the largest character budget
MaxText == 5
MaxBudget == 3
\* messages in a batch to format, and the latest timestamp (half seconds)
MaxFormatted == 3
MaxTimestamp == 3
\* on-ready callbacks and shutdown signals in one behaviour
MaxOnReady == 4
MaxSignals == 4
\* post_summary calls in one behaviour
MaxPosts == 2
\* get_prompts calls in one behaviour
MaxPromptCalls == 3

(***************************************************************************)
(* Program constants of the fetcher (half seconds).                        *)
(***************************************************************************)
DEFAULT_REMAINING == 5
DEFAULT_RESET_DELTA == 10
DEFAULT_RETRY_AFTER == 2
RATE_LIMIT_PAD == 1

(***************************************************************************)
(* Program constant of the collector.                                      *)
(***************************************************************************)
MAX_TOTAL_REQUESTS == 500

VARIABLES
    \* ---- DiscordReaderClient (fetcher) ----
    rate_limit_remaining,   \* self.rate_limit_remaining
    rate_limit_reset,       \* self.rate_limit_reset
    clock,                  \* time.time()
    f_pc,                   \* "idle" | "call" | "done": position of request()
    f_req,                  \* (endpoint, method, payload) of the call in progress
    f_depth,                \* frames of _make_request on the stack
    f_result,               \* value returned to the caller
    f_calls,                \* request() calls made so far
    response,               \* the response of the last send, None before one
    sent,                   \* HTTP requests put on the wire by the current call
    slept,                  \* time.sleep calls of the current call
    \* ---- DiscordReaderClient.collect_messages (collector) ----
    config,                 \* the reader's config attribute
    source,                 \* how the source API answers page requests
    pages_left,             \* non-empty pages a finite source still holds
    main_history,           \* the main channel's records at the source, newest first
    channel_threads,        \* the channel's active threads at the source
    c_pc,                   \* "idle" | "threads" | "paging" | "done"
    channel_name,
    time_threshold,
    all_messages,
    thread_data,
    active_threads,         \* active_threads["threads"]
    thread_index,           \* position of the for loop of line 188
    thread_messages,
    thread_last_id,
    thread_requests,
    thread_batch,
    before,                 \* the before argument of the latest get_messages call
    failed_pages,           \* page requests of this collection that failed
    http_requests,          \* HTTP requests sent during this collection
    rate_limited,           \* 429 answers received during this collection
    c_result,               \* the tuple collect_messages returns
    \* ---- SummaryGeneratorService ----
    summarizer,             \* provider of self.summarizer, the primary backend
    fallback_key,           \* the other provider's API key is in the environment
    calls,                  \* generate_summary calls made, with their outcome
    g_pc,                   \* "idle" | "main" | "threads" | "assemble" | "done"
    g_messages,             \* main-channel messages collected
    g_thread_data,          \* (thread messages, thread name) collected
    g_index,                \* position of the for loop of line 86
    main_summary,
    provider_name,
    thread_summaries,
    g_result,               \* what generate_channel_summary returns
    \* ---- collect_from_config / generate_combined_summary ----
    channel_ids,            \* config.channel_ids
    guild_channels,         \* text channels of config.guild_id, <<>> without one
    o_pc,                   \* "idle" | "collecting" | "collected" | "done"
                            \* | "done_all" (generate_all_channel_summaries)
    results,                \* collect_from_config's mapping, in insertion order
    o_result,               \* what generate_combined_summary returns or raises
    \* ---- _convert_to_message_model over one page ----
    n_pc,                   \* "idle" | "done"
    n_page,                 \* the raw records of a page
    n_list,                 \* the messages appended for the page
    \* ---- SummarySchedulerService and run_scheduled ----
    is_running,             \* self.is_running: the cron job is installed
    debug_mode,             \* config.debug_mode
    ready,                  \* the on_ready callback of run_scheduled has run
    t_pc,                   \* per execution of generate_and_post_summaries:
                            \* "idle" | "created" | the await it is suspended
                            \* at | "done"
    t_runs,                 \* executions started so far, per trigger
    t_summaries,            \* channel_summaries of the execution
    t_index,                \* position of the for loop of line 100
    t_raised,               \* exceptions raised inside the execution
    t_errors,               \* post_error calls made by the execution
    t_collected,            \* main-channel messages the execution collected,
                            \* per configured channel or guild text channel
    t_posted,               \* post_summary calls made by the execution
    destination,            \* messages delivered to the destination channel
    \* ---- PromptTemplates.get_prompts ----
    p_pc,                   \* "idle" | "passed" | "detected"
    p_channel_name,         \* the channel label handed to the summarizer
    p_prompt_type,          \* the prompt_type argument, or None
    p_prompts,              \* key of the SPECIALIZED_PROMPTS entry returned
    SPECIALIZED_PROMPTS,    \* the class attribute: prompt key -> prompts dict
    o_calls,                \* get_prompts calls made with override arguments
    o_last,                 \* the latest of these calls and what it returned
    \* ---- BaseSummarizer._truncate_messages ----
    x_pc,                   \* "idle" | "done"
    x_formatted_messages,   \* the formatted text, a sequence of characters
    x_max_length,           \* the provider's character budget
    x_result,               \* the text returned
    \* ---- BaseSummarizer._format_messages_for_prompt ----
    m_pc,                   \* "idle" | "done"
    m_messages,             \* the messages of the batch, in input order
    m_text,                 \* the text returned, a sequence of lines
    \* ---- the scheduler's life cycle: start(), stop() and their callers ----
    scheduler_state,        \* the AsyncIOScheduler: "stopped" | "running"
    add_job_calls,          \* scheduler.add_job calls made so far
    scheduler_starts,       \* scheduler.start calls made so far
    shutdown_calls,         \* scheduler.shutdown calls made so far
    on_ready_calls,         \* on_ready callbacks run so far
    signals,                \* shutdown tasks run so far (one per signal)
    run_now_tasks,          \* run_now tasks created by on_ready
    shutdown_event,         \* main.py's shutdown_event is set
    \* ---- DiscordWriterClient.post_summary ----
    w_pc,                   \* "idle" | "wait_until_ready" | "send_cached" |
                            \* "fetch_channel" | "send_fetched" | "http" |
                            \* "returned"
    is_ready,               \* self.is_ready
    w_summary,              \* title of the summary being posted
    success,                \* the local success
    w_delivered,            \* approaches that delivered in this call
    w_exceptions,           \* awaits of this call that raised
    w_result,               \* "pending" | "True" | "False"
    w_posts,                \* post_summary calls made so far
    w_channel               \* messages that arrived in the Discord channel

fetchVars == <<rate_limit_remaining, rate_limit_reset, clock, f_pc, f_req,
               f_depth, f_result, f_calls, response, sent, slept>>

collectVars == <<config, source, pages_left, main_history, channel_threads,
                 c_pc, channel_name,
                 time_threshold, all_messages, thread_data, active_threads,
                 thread_index, thread_messages, thread_last_id,
                 thread_requests, thread_batch, before, failed_pages,
                 http_requests, rate_limited, c_result>>

genVars == <<summarizer, fallback_key, calls, g_pc, g_messages, g_thread_data,
             g_index, main_summary, provider_name, thread_summaries, g_result>>

combinedVars == <<channel_ids, guild_channels, o_pc, results, o_result>>

normVars == <<n_pc, n_page, n_list>>

schedVars == <<is_running, debug_mode, ready, t_pc, t_runs, t_summaries,
               t_index, t_raised, t_errors, t_collected, t_posted,
               destination>>

promptVars == <<p_pc, p_channel_name, p_prompt_type, p_prompts,
                SPECIALIZED_PROMPTS, o_calls, o_last>>

truncateVars == <<x_pc, x_formatted_messages, x_max_length, x_result>>

formatVars == <<m_pc, m_messages, m_text>>

textVars == <<promptVars, truncateVars, formatVars>>

lifeVars == <<scheduler_state, add_job_calls, scheduler_starts,
              shutdown_calls, on_ready_calls, signals, run_now_tasks,
              shutdown_event>>

writerVars == <<w_pc, is_ready, w_summary, success, w_delivered,
                w_exceptions, w_result, w_posts, w_channel>>

serviceVars == <<lifeVars, writerVars>>

vars == <<fetchVars, collectVars, genVars, combinedVars, normVars, schedVars,
          textVars, serviceVars>>

(***************************************************************************)
(* The source API as the fetcher sees it.                                  *)
(***************************************************************************)
Endpoints == {"/channels/c1", "/channels/c1/messages?limit=100"}
Methods == {"GET", "POST", "PUT"}
Payloads == {None, "payload"}
\* the calls a caller makes: reads, a POST with a payload, an unsupported method
Requests == {[endpoint |-> e, method |-> "GET", payload |-> None] : e \in Endpoints}
            \cup {[endpoint |-> "/channels/c1", method |-> "POST", payload |-> "payload"],
                  [endpoint |-> "/channels/c1", method |-> "PUT", payload |-> None]}

Statuses == {200, 429, 500}
RetryAfters == {3}
\* a body is a JSON object (with or without a retry_after field) or not JSON
Bodies == {[json |-> TRUE, retry_after |-> Absent],
           [json |-> FALSE, retry_after |-> Absent]}
          \cup {[json |-> TRUE, retry_after |-> r] : r \in RetryAfters}
\* headers: X-RateLimit-Remaining, X-RateLimit-Reset (as seconds after now)
RemainingHeaders == {Absent, 1}
ResetHeaders == {Absent, 3}
\* only the body of a 429 is read for its retry_after field
Responses == {r \in [kind : {"response"}, status : Statuses,
                     remaining : RemainingHeaders, reset : ResetHeaders,
                     body : Bodies] :
                 r.status # 429 => r.body.retry_after = Absent}
NoResponse == [kind |-> "none"]
RaisedException == [kind |-> "exception"]
NoRequest == [endpoint |-> "", method |-> "", payload |-> None]

\* what requests.get / requests.post put on the wire: get() carries no payload
Wire(req) == [endpoint |-> req.endpoint, method |-> req.method,
              payload |-> IF req.method = "POST" THEN req.payload ELSE None]

\* _handle_rate_limit: the time slept before a send
HandleRateLimitNoPad(remaining, reset, now) ==
    IF remaining <= 1 THEN Max(0, reset - now) ELSE 0
HandleRateLimit(remaining, reset, now) ==
    IF remaining <= 1 THEN Max(0, reset - now) + RATE_LIMIT_PAD ELSE 0

\* lines 82-83: the rate-limit state after a response received at time now
RemainingAfterKeepsZero(r) ==
    IF r.remaining = Absent THEN 0 ELSE r.remaining
RemainingAfter(r) ==
    IF r.remaining = Absent THEN DEFAULT_REMAINING ELSE r.remaining
ResetAfter(r, now) ==
    IF r.reset = Absent THEN now + DEFAULT_RESET_DELTA ELSE now + r.reset

\* line 87: response.json().get("retry_after", 1)
RetryAfterZeroDefault(body) ==
    IF body.retry_after = Absent THEN 0 ELSE body.retry_after
RetryAfter(body) ==
    IF body.retry_after = Absent THEN DEFAULT_RETRY_AFTER ELSE body.retry_after

\* line 90: the arguments of the recursive call
RetryRequestAsGet(req) == [req EXCEPT !.method = "GET"]
RetryRequest(req) == req

\* lines 73-79: a method that is neither GET nor POST is not sent
UnsupportedNever(method) == FALSE
Unsupported(method) == method \notin {"GET", "POST"}

\* lines 93-97: the value of a response that is not a 429
OutcomeIgnoringStatus(r) ==
    IF r.body.json THEN [kind |-> "json", body |-> r.body] ELSE NoneValue
Outcome(r) ==
    IF r.status # 200 THEN NoneValue
    ELSE IF r.body.json THEN [kind |-> "json", body |-> r.body] ELSE NoneValue

\* lines 110, 122, 152: `self._make_request(...) or []` of get_user_guilds,
\* get_guild_channels and get_messages
EmptyList == [kind |-> "list", items |-> <<>>]
OrEmptyList(v) == IF v = NoneValue THEN EmptyList ELSE v
GetMessages == OrEmptyList(f_result)

FetchInit ==
    /\ rate_limit_remaining = DEFAULT_REMAINING
    /\ rate_limit_reset = 0
    /\ clock = 1
    /\ f_pc = "idle"
    /\ f_req = NoRequest
    /\ f_depth = 0
    /\ f_result = NoneValue
    /\ f_calls = 0
    /\ response = NoResponse
    /\ sent = <<>>
    /\ slept = <<>>

\* a caller invokes _make_request(endpoint, method, payload)
Call ==
    /\ f_pc \in {"idle", "done"}
    /\ f_calls < MaxCalls
    /\ \E req \in Requests : f_req' = req
    /\ f_pc' = "call"
    /\ f_depth' = 1
    /\ f_calls' = f_calls + 1
    /\ f_result' = NoneValue
    /\ response' = NoResponse
    /\ sent' = <<>>
    /\ slept' = <<>>
    /\ UNCHANGED <<rate_limit_remaining, rate_limit_reset, clock>>

\* the frame returns v; every enclosing frame returns the same value (line 90)
Return(v) ==
    /\ f_pc' = "done"
    /\ f_depth' = 0
    /\ f_result' = v
    /\ UNCHANGED <<f_req, f_calls>>

\* one frame of _make_request, lines 68-101
MakeRequest ==
    /\ f_pc = "call"
    /\ LET wait == HandleRateLimit(rate_limit_remaining, rate_limit_reset, clock)
           now == clock + wait
           slept1 == IF wait > 0
                     THEN Append(slept, [why |-> "rate_limit", secs |-> wait])
                     ELSE slept
       IN  IF Unsupported(f_req.method)
           THEN \* lines 77-79: unsupported method, nothing is sent
                /\ Return(NoneValue)
                /\ clock' = now
                /\ slept' = slept1
                /\ UNCHANGED <<rate_limit_remaining, rate_limit_reset,
                               response, sent>>
           ELSE LET sent1 == Append(sent, [req |-> Wire(f_req), at |-> now])
                IN  \/ \* requests raises: lines 99-101
                       /\ Return(NoneValue)
                       /\ clock' = now
                       /\ slept' = slept1
                       /\ sent' = sent1
                       /\ response' = RaisedException
                       /\ UNCHANGED <<rate_limit_remaining, rate_limit_reset>>
                    \/ \E r \in Responses :
                          /\ r.status = 429 => Len(sent1) < MaxSends
                          /\ sent' = sent1
                          /\ response' = r
                          /\ rate_limit_remaining' = RemainingAfter(r)
                          /\ rate_limit_reset' = ResetAfter(r, now)
                          /\ IF r.status = 429 /\ r.body.json
                             THEN \* lines 86-90: sleep, then recurse
                                  /\ clock' = now + RetryAfter(r.body)
                                  /\ slept' = Append(slept1,
                                        [why |-> "retry_after",
                                         secs |-> RetryAfter(r.body)])
                                  /\ f_req' = RetryRequest(f_req)
                                  /\ f_depth' = f_depth + 1
                                  /\ UNCHANGED <<f_pc, f_result, f_calls>>
                             ELSE IF r.status = 429
                             THEN \* response.json() raises: lines 99-101
                                  /\ Return(NoneValue)
                                  /\ clock' = now
                                  /\ slept' = slept1
                             ELSE /\ Return(Outcome(r))
                                  /\ clock' = now
                                  /\ slept' = slept1

FetchNext == (Call \/ MakeRequest)
             /\ UNCHANGED <<collectVars, genVars, combinedVars, normVars, schedVars,
                            textVars,
        serviceVars>>

(***************************************************************************)
(* The collector: DiscordReaderClient.collect_messages.                    *)
(* Timestamps are counted in days; a record whose timestamp string does    *)
(* not parse carries BadTimestamp.                                         *)
(***************************************************************************)
Now == 2
Days == {1}
\* two days old and one day old: before the threshold and exactly on it
Times == {Now - 2, Now - 1}
BadTimestamp == -1
Contents == {"", "hi"}
ThreadIds == {"t1", "t2", "t3"}

\* distinct records of the source carry distinct ids
MsgId(ts, content) == 2 * (ts + 1) + (IF content = "" THEN 0 ELSE 1)
\* a record with text for every timestamp, and one record without text
RawMessages == {[id |-> MsgId(ts, "hi"), timestamp |-> ts, content |-> "hi"] :
                    ts \in Times \cup {BadTimestamp}}
               \cup {[id |-> MsgId(Now - 1, ""), timestamp |-> Now - 1,
                      content |-> ""]}

SeqsUpTo(S, n) == UNION {[1 .. k -> S] : k \in 0 .. n}
Pages == SeqsUpTo(RawMessages, PageLimit) \ {<<>>}
\* an adversarial page: full, in the window, of records without text
FloodPage == [i \in 1 .. PageLimit |->
                 [id |-> MsgId(Now - 1, ""), timestamp |-> Now - 1,
                  content |-> ""]]
ActiveLists == {l \in SeqsUpTo(ThreadIds, MaxThreads) :
                   \A i, j \in 1 .. Len(l) : i # j => l[i] # l[j]}
\* line 194: thread.get("name", f"Thread {thread_id}")
ThreadName(t) == CASE t = "t1" -> "Thread t1"
                   [] t = "t2" -> "Thread t2"
                   [] t = "t3" -> "Thread t3"
                   [] OTHER -> "Thread t4"
NoId == 0

\* the reader's config attribute: never assigned by __init__ ("missing"),
\* None, a DiscordReaderConfig (which has no thread_ids), or an object
\* with thread_ids.  thread_ids is the set of thread ids that are to be
\* collected; only an object with thread_ids carries it to the reader
Configs == {[kind |-> "missing", thread_ids |-> ids] : ids \in {{}, {"t1"}}}
           \cup
           {[kind |-> "none", thread_ids |-> {}],
            [kind |-> "no_thread_ids", thread_ids |-> {}]}
           \cup {[kind |-> "thread_ids", thread_ids |-> ids] :
                    ids \in {{}, {"t1"}, {"t1", "t2"}}}

MainHistories == {<<>>,
                  <<[id |-> MsgId(1, "hi"), timestamp |-> 1, content |-> "hi"],
                    [id |-> MsgId(0, "hi"), timestamp |-> 0, content |-> "hi"]>>}

\* dict.get(key, default): a raw record is a record whose domain holds the
\* keys that are present
Get(dict, key, default) == IF key \in DOMAIN dict THEN dict[key] ELSE default

\* line 255: the default {} of raw_message.get('author', {})
NoAuthor == [x \in {} |-> ""]
\* line 269: the default of raw_message.get('id', '0')
DefaultId == 0

\* lines 248-282: _convert_to_message_model; a timestamp that does not
\* parse raises inside its try and yields None, a missing one is now
ConvertToMessageModelKeepsEmpty(raw) ==
    IF Get(raw, "timestamp", Now) = BadTimestamp THEN NoneValue
    ELSE [kind |-> "message", id |-> Get(raw, "id", DefaultId),
          content |-> Get(raw, "content", ""),
          username |-> Get(Get(raw, "author", NoAuthor), "username", "Unknown"),
          user_id |-> Get(Get(raw, "author", NoAuthor), "id", "0"),
          timestamp |-> Get(raw, "timestamp", Now)]
ConvertToMessageModel(raw) ==
    IF Get(raw, "content", "") = "" THEN NoneValue
    ELSE IF Get(raw, "timestamp", Now) = BadTimestamp THEN NoneValue
    ELSE [kind |-> "message", id |-> Get(raw, "id", DefaultId),
          content |-> raw.content,
          username |-> Get(Get(raw, "author", NoAuthor), "username", "Unknown"),
          user_id |-> Get(Get(raw, "author", NoAuthor), "id", "0"),
          timestamp |-> Get(raw, "timestamp", Now)]

\* line 207: the page reaches past the threshold
PastThresholdInclusive(oldest, threshold) == oldest <= threshold
PastThreshold(oldest, threshold) == oldest < threshold

\* line 211: the record of a cutoff page is still in the window
InWindowStrict(ts, threshold) == ts > threshold
InWindow(ts, threshold) == ts >= threshold

\* lines 218-221: every record of the page that converts
RECURSIVE ProcessAll(_)
ProcessAll(batch) ==
    IF batch = <<>> THEN <<>>
    ELSE LET m == ConvertToMessageModel(Head(batch))
         IN  (IF m # NoneValue THEN <<m>> ELSE <<>>) \o ProcessAll(Tail(batch))

\* lines 209-214: the records of a cutoff page at or after the threshold
RECURSIVE ProcessUntilThreshold(_, _)
ProcessUntilThreshold(batch, threshold) ==
    IF batch = <<>> THEN <<>>
    ELSE LET m == ConvertToMessageModel(Head(batch))
         IN  (IF InWindow(Head(batch).timestamp, threshold) /\ m # NoneValue
              THEN <<m>> ELSE <<>>)
             \o ProcessUntilThreshold(Tail(batch), threshold)

\* lines 206 and 210 parse the timestamp outside _convert_to_message_model:
\* datetime.fromisoformat raises on the page's last record, and on any
\* record of a cutoff page
ParseRaises(batch, threshold) ==
    \/ Last(batch).timestamp = BadTimestamp
    \/ /\ PastThreshold(Last(batch).timestamp, threshold)
       /\ \E i \in 1 .. Len(batch) : batch[i].timestamp = BadTimestamp

\* the reader as __init__ leaves it (lines 33-42): no config attribute
ConstructedConfig == [kind |-> "missing", thread_ids |-> {}]

\* the collector before collect_messages is called on a reader whose config
\* attribute is cfg, against a source of kind src holding history and the
\* active threads
CollectStart(cfg, src, history, threads) ==
    /\ config = cfg
    /\ source = src
    /\ pages_left = MaxPages
    /\ main_history = history
    /\ channel_threads = threads
    /\ c_pc = "idle"
    /\ channel_name = ""
    /\ time_threshold = 0
    /\ all_messages = <<>>
    /\ thread_data = <<>>
    /\ active_threads = <<>>
    /\ thread_index = 0
    /\ thread_messages = <<>>
    /\ thread_last_id = NoId
    /\ thread_requests = 0
    /\ thread_batch = <<>>
    /\ before = NoId
    /\ failed_pages = 0
    /\ http_requests = 0
    /\ rate_limited = 0
    /\ c_result = NoneValue

\* one _make_request call of the collector: the source answers n times 429
\* (each is slept on and re-sent, lines 86-90) before its final answer
Fetched(n) ==
    /\ n \in 0 .. (MaxRateLimited - rate_limited)
    /\ rate_limited' = rate_limited + n
    /\ http_requests' = http_requests + n + 1

\* line 232 / line 236: collect_messages returns
ReturnTuple(msgs, name, threads) ==
    /\ c_pc' = "done"
    /\ c_result' = [kind |-> "tuple", messages |-> msgs,
                    channel_name |-> name, thread_data |-> threads]

\* collect_messages(channel_id, days), lines 165-187: channel lookup,
\* threshold, config test and the active-threads request
CollectMessages ==
    /\ c_pc = "idle"
    /\ \E days \in Days, info \in {"general", None}, n \in 0 .. MaxRateLimited :
          LET name == IF info # None THEN info ELSE "Channel c1"
          IN  /\ channel_name' = name
              /\ time_threshold' = Now - days
              /\ all_messages' = <<>>
              /\ thread_data' = <<>>
              /\ UNCHANGED <<config, source, pages_left, main_history,
                             channel_threads, thread_index, thread_messages,
                             thread_last_id, thread_requests, thread_batch,
                             before, failed_pages>>
              /\ IF config.kind = "missing"
                 THEN \* AttributeError at line 184, caught at line 234
                      /\ Fetched(n)
                      /\ ReturnTuple(<<>>, name, <<>>)
                      /\ UNCHANGED active_threads
                 ELSE IF config.kind # "thread_ids" \/ config.thread_ids = {}
                 THEN /\ Fetched(n)
                      /\ ReturnTuple(<<>>, name, <<>>)
                      /\ UNCHANGED active_threads
                 ELSE \* line 186: the active-threads request
                      \E k \in 0 .. MaxRateLimited :
                         /\ n + k <= MaxRateLimited
                         /\ rate_limited' = rate_limited + n + k
                         /\ http_requests' = http_requests + n + k + 2
                         /\ \/ \* failure, or a body without "threads"
                               /\ ReturnTuple(<<>>, name, <<>>)
                               /\ UNCHANGED active_threads
                            \/ /\ active_threads' = channel_threads
                               /\ c_pc' = "threads"
                               /\ UNCHANGED c_result

\* the for loop of lines 188-196: the next active thread
NextThread ==
    /\ c_pc = "threads"
    /\ UNCHANGED <<config, source, pages_left, main_history, channel_threads,
                   channel_name, time_threshold, all_messages, thread_data,
                   before, failed_pages, active_threads,
                   http_requests, rate_limited>>
    \* thread_batch is not read again before line 200 assigns it
    /\ thread_batch' = <<>>
    /\ IF thread_index >= Len(active_threads)
       THEN \* line 232
            /\ ReturnTuple(all_messages, channel_name, thread_data)
            /\ UNCHANGED <<thread_index, thread_messages, thread_last_id,
                           thread_requests>>
       ELSE /\ thread_index' = thread_index + 1
            /\ UNCHANGED c_result
            /\ IF active_threads[thread_index + 1] \in config.thread_ids
               THEN /\ thread_messages' = <<>>
                    /\ thread_last_id' = NoId
                    /\ thread_requests' = 0
                    /\ c_pc' = "paging"
               ELSE UNCHANGED <<thread_messages, thread_last_id,
                                thread_requests, c_pc>>

\* the pages the source may answer the next page request with
ServedPages ==
    IF source = "flood" THEN {FloodPage}
    ELSE IF pages_left > 0 THEN Pages \cup {<<>>}
    ELSE {<<>>}

\* line 230: the entry (thread_messages, thread_name)
ThreadEntryWithoutMessages(msgs, name) == [messages |-> <<>>, name |-> name]
ThreadEntry(msgs, name) == [messages |-> msgs, name |-> name]

\* line 224: the cursor of the next request is the id of the page's last
\* record
NextCursorOfFirst(batch) == Head(batch).id
NextCursor(batch) == Last(batch).id

\* what get_messages may return for the next page request: the pages the
\* source may serve, or the fetcher's failure result
Answers ==
    {[kind |-> "list", items |-> page] : page \in ServedPages}
    \cup IF source = "finite" THEN {NoneValue} ELSE {}

\* lines 229-230: the thread is finished
CloseThread(msgs) ==
    /\ thread_data' = Append(thread_data,
          ThreadEntry(msgs, ThreadName(active_threads[thread_index])))
    /\ c_pc' = "threads"
    /\ UNCHANGED c_result

\* one iteration of the while loop of lines 197-227
PageRequest ==
    /\ c_pc = "paging"
    /\ UNCHANGED <<config, source, main_history, channel_threads, channel_name,
                   time_threshold, all_messages, active_threads, thread_index>>
    /\ thread_requests' = thread_requests + 1
    /\ before' = thread_last_id
    /\ \E n \in 0 .. MaxRateLimited, answer \in Answers :
       LET batch == OrEmptyList(answer).items
       IN /\ Fetched(n)
          /\ failed_pages' = IF answer = NoneValue THEN failed_pages + 1
                             ELSE failed_pages
          /\ thread_batch' = batch
          /\ pages_left' = IF batch # <<>> /\ source = "finite"
                           THEN pages_left - 1 ELSE pages_left
          /\ IF batch = <<>>
             THEN \* line 203: empty page, or failure turned into [] (line 152)
                  /\ CloseThread(thread_messages)
                  /\ UNCHANGED <<thread_messages, thread_last_id>>
             ELSE IF ParseRaises(batch, time_threshold)
             THEN \* caught at line 234: everything collected is dropped
                  /\ ReturnTuple(<<>>, channel_name, <<>>)
                  /\ UNCHANGED <<thread_messages, thread_last_id, thread_data>>
             ELSE IF PastThreshold(Last(batch).timestamp, time_threshold)
             THEN \* lines 207-215
                  /\ thread_messages' = thread_messages
                        \o ProcessUntilThreshold(batch, time_threshold)
                  /\ CloseThread(thread_messages')
                  /\ UNCHANGED thread_last_id
             ELSE \* lines 217-227
                  /\ thread_messages' = thread_messages \o ProcessAll(batch)
                  /\ thread_last_id' = NextCursor(batch)
                  /\ IF thread_requests' < MAX_TOTAL_REQUESTS
                     THEN UNCHANGED <<thread_data, c_pc, c_result>>
                     ELSE CloseThread(thread_messages')

CollectNext == (CollectMessages \/ NextThread \/ PageRequest)
               /\ UNCHANGED <<fetchVars, genVars, combinedVars, normVars, schedVars,
                              textVars,
        serviceVars>>

(***************************************************************************)
(* The summary orchestrator: SummaryGeneratorService.                      *)
(* A text is a sequence of segments: literal pieces and pieces generated   *)
(* by a backend; None and the empty string are both the empty sequence.    *)
(***************************************************************************)
Providers == {"Anthropic", "DeepSeek"}

Lit(text) == [kind |-> "literal", text |-> text, by |-> "", of |-> ""]
Generated(provider, label) ==
    [kind |-> "generated", text |-> "", by |-> provider, of |-> label]
Heading(name) == [kind |-> "### ", text |-> name, by |-> "", of |-> ""]

\* the lists a collection hands over: only their length matters here
MessageLists == SeqsUpTo({"m"}, MaxMessages)
ThreadLabels == <<"t1", "t2", "t3", "t4">>
ThreadDatas == UNION {[1 .. k -> MessageLists] : k \in 0 .. MaxThreads}
NamedThreads(lists) ==
    [i \in 1 .. Len(lists) |->
        [messages |-> lists[i], name |-> ThreadName(ThreadLabels[i])]]

\* lines 173-186: the provider constructed when the primary gave nothing
FallbackProviderSame(primary) == primary
FallbackProvider(primary) ==
    IF primary = "Anthropic" THEN "DeepSeek" ELSE "Anthropic"

\* _generate_summary_with_fallback, lines 153-213, for a batch labelled
\* label: primaryText and fallbackText say whether that backend, when
\* called, returns usable text (an exception or an empty answer is none)
GenerateSummaryWithFallbackIgnoringKey(primary, key, label, primaryText, fallbackText) ==
    LET first == [provider |-> primary, label |-> label, text |-> primaryText]
        other == FallbackProvider(primary)
        second == [provider |-> other, label |-> label, text |-> fallbackText]
    IN  IF primaryText
        THEN [text |-> <<Generated(primary, label)>>, provider |-> primary,
              calls |-> <<first>>]
        ELSE IF fallbackText
        THEN [text |-> <<Generated(other, label)>>, provider |-> other,
              calls |-> <<first, second>>]
        ELSE [text |-> <<>>, provider |-> None, calls |-> <<first, second>>]
GenerateSummaryWithFallback(primary, key, label, primaryText, fallbackText) ==
    LET first == [provider |-> primary, label |-> label, text |-> primaryText]
        other == FallbackProvider(primary)
        second == [provider |-> other, label |-> label, text |-> fallbackText]
    IN  IF primaryText
        THEN [text |-> <<Generated(primary, label)>>, provider |-> primary,
              calls |-> <<first>>]
        ELSE IF ~key
        THEN [text |-> <<>>, provider |-> None, calls |-> <<first>>]
        ELSE IF fallbackText
        THEN [text |-> <<Generated(other, label)>>, provider |-> other,
              calls |-> <<first, second>>]
        ELSE [text |-> <<>>, provider |-> None, calls |-> <<first, second>>]

\* base.py lines 66-84: create_summary_object
CreateSummaryObject(primary, content, count, name, id, provider) ==
    [kind |-> "summary", content |-> content, channel_name |-> name,
     channel_id |-> id, message_count |-> count,
     provider_name |-> IF provider # None THEN provider ELSE primary]

\* lines 104-108: the line that opens the thread section
ThreadSectionHeaderAlwaysAppended(combined) ==
    combined \o <<Lit("\n\n## Thread Summaries\n")>>
ThreadSectionHeader(combined) ==
    IF combined # <<>>
    THEN combined \o <<Lit("\n\n## Thread Summaries\n")>>
    ELSE <<Lit("## Thread Summaries\n")>>

\* lines 110-111: one subsection per summarized thread
RECURSIVE ThreadSections(_)
ThreadSections(summaries) ==
    IF summaries = <<>> THEN <<>>
    ELSE <<Heading(Head(summaries).name)>> \o Head(summaries).text
         \o <<Lit("\n")>> \o ThreadSections(Tail(summaries))

\* lines 99-111: the combined text
CombinedSummary(main, summaries) ==
    IF summaries # <<>>
    THEN ThreadSectionHeader(main) \o ThreadSections(summaries)
    ELSE main

RECURSIVE Concat(_)
Concat(lists) == IF lists = <<>> THEN <<>> ELSE Head(lists) \o Concat(Tail(lists))

GenStart(p, key) ==
    /\ summarizer = p
    /\ fallback_key = key
    /\ calls = <<>>
    /\ g_pc = "idle"
    /\ g_messages = <<>>
    /\ g_thread_data = <<>>
    /\ g_index = 0
    /\ main_summary = <<>>
    /\ provider_name = None
    /\ thread_summaries = <<>>
    /\ g_result = NoneValue

GenUnused == GenStart("Anthropic", FALSE)

\* line 60: neither the channel nor any thread holds a message
NothingCollectedNever(msgs, threads) == FALSE
NothingCollected(msgs, threads) ==
    msgs = <<>> /\ \A i \in 1 .. Len(threads) : threads[i] = <<>>

\* generate_channel_summary, lines 53-64: collect, and stop when the
\* channel and every thread are empty
GenerateChannelSummary ==
    /\ g_pc = "idle"
    /\ \E msgs \in MessageLists, threads \in ThreadDatas :
          /\ g_messages' = msgs
          /\ g_thread_data' = NamedThreads(threads)
          /\ IF NothingCollected(msgs, threads)
             THEN g_pc' = "done"
             ELSE g_pc' = "main"
    /\ g_result' = NoneValue
    /\ UNCHANGED <<summarizer, fallback_key, calls, g_index, main_summary,
                   provider_name, thread_summaries>>

\* lines 66-82: the main channel's summary
SummarizeMain ==
    /\ g_pc = "main"
    /\ g_pc' = "threads"
    /\ IF g_messages # <<>>
       THEN \E primaryText, fallbackText \in BOOLEAN :
               LET r == GenerateSummaryWithFallback(summarizer, fallback_key,
                            "channel", primaryText, fallbackText)
               IN  /\ main_summary' = r.text
                   /\ provider_name' = r.provider
                   /\ calls' = calls \o r.calls
       ELSE /\ main_summary'
                 = <<Lit("No messages in main channel during this period.")>>
            /\ provider_name' = summarizer
            /\ UNCHANGED calls
    /\ UNCHANGED <<summarizer, fallback_key, g_messages, g_thread_data, g_index,
                   thread_summaries, g_result>>

\* lines 86-97: one iteration of the loop over the threads
SummarizeThread ==
    /\ g_pc = "threads"
    /\ g_index < Len(g_thread_data)
    /\ g_index' = g_index + 1
    /\ LET thread == g_thread_data[g_index + 1]
       IN  IF thread.messages # <<>>
           THEN \E primaryText, fallbackText \in BOOLEAN :
                   LET r == GenerateSummaryWithFallback(summarizer,
                                fallback_key, thread.name, primaryText,
                                fallbackText)
                   IN  /\ calls' = calls \o r.calls
                       /\ IF r.text # <<>>
                          THEN /\ thread_summaries' = Append(thread_summaries,
                                     [name |-> thread.name, text |-> r.text])
                               /\ provider_name' = IF main_summary = <<>>
                                                   THEN r.provider
                                                   ELSE provider_name
                          ELSE UNCHANGED <<thread_summaries, provider_name>>
           ELSE UNCHANGED <<calls, thread_summaries, provider_name>>
    /\ UNCHANGED <<summarizer, fallback_key, g_pc, g_messages, g_thread_data,
                   main_summary, g_result>>

\* lines 99-129: assemble the text and build the Summary
Assemble ==
    /\ g_pc = "threads"
    /\ g_index >= Len(g_thread_data)
    /\ g_pc' = "done"
    /\ LET combined == CombinedSummary(main_summary, thread_summaries)
           all == g_messages
                  \o Concat([i \in 1 .. Len(g_thread_data) |->
                                g_thread_data[i].messages])
       IN  g_result' = IF combined = <<>> THEN NoneValue
                       ELSE CreateSummaryObject(summarizer, combined, Len(all),
                                "general", "c1", provider_name)
    /\ UNCHANGED <<summarizer, fallback_key, calls, g_messages, g_thread_data,
                   g_index, main_summary, provider_name, thread_summaries>>

\* lines 86-97 as a function: the threads that get a summary, outcomes[i]
\* saying whether the primary and the fallback backend return text for the
\* i-th thread
RECURSIVE ThreadSummariesOf(_, _, _, _)
ThreadSummariesOf(primary, key, threads, outcomes) ==
    IF threads = <<>> THEN <<>>
    ELSE LET thread == Head(threads)
             r == GenerateSummaryWithFallback(primary, key, thread.name,
                      Head(outcomes)[1], Head(outcomes)[2])
             rest == ThreadSummariesOf(primary, key, Tail(threads),
                         Tail(outcomes))
         IN  IF thread.messages # <<>> /\ r.text # <<>>
             THEN <<[name |-> thread.name, text |-> r.text,
                     provider |-> r.provider]>> \o rest
             ELSE rest

\* generate_channel_summary, lines 58-129, as a function of what was
\* collected (msgs, name, threads) and of the backends' answers for the main
\* channel's batch (first), labelled label, and for the threads' batches
ChannelSummaryOf(primary, key, id, label, msgs, name, threads, first, others) ==
    IF NothingCollected(msgs, [i \in 1 .. Len(threads) |-> threads[i].messages])
    THEN NoneValue
    ELSE LET r == GenerateSummaryWithFallback(primary, key, label,
                      first[1], first[2])
             main == IF msgs # <<>> THEN r.text
                     ELSE <<Lit("No messages in main channel during this period.")>>
             summaries == ThreadSummariesOf(primary, key, threads, others)
             provider == IF msgs = <<>> THEN primary
                         ELSE IF main = <<>> /\ summaries # <<>>
                         THEN Last(summaries).provider
                         ELSE r.provider
             combined == CombinedSummary(main,
                             [i \in 1 .. Len(summaries) |->
                                 [name |-> summaries[i].name,
                                  text |-> summaries[i].text]])
             all == msgs \o Concat([i \in 1 .. Len(threads) |->
                                       threads[i].messages])
         IN  IF combined = <<>> THEN NoneValue
             ELSE CreateSummaryObject(primary, combined, Len(all), name, id,
                                      provider)

GenNext == (GenerateChannelSummary \/ SummarizeMain \/ SummarizeThread
            \/ Assemble)
           /\ UNCHANGED <<fetchVars, collectVars, combinedVars, normVars,
                        schedVars, textVars,
        serviceVars>>

(***************************************************************************)
(* The collection orchestrator and the combined summary:                   *)
(* MessageCollectorService.collect_from_config and                         *)
(* SummaryGeneratorService.generate_combined_summary.  A Python tuple is   *)
(* a sequence; destructuring it into two names needs length 2.             *)
(***************************************************************************)
ChannelIds == <<"A", "B", "C">>
ChannelLists == {[i \in 1 .. k |-> ChannelIds[i]] : k \in 0 .. MaxChannels}
ValueError == [kind |-> "raised", error |-> "ValueError"]

\* message_collector.py line 105: the value stored for a configured channel
ChannelEntry(id, msgs, name, threads) ==
    [channel_id |-> id, value |-> <<msgs, name, threads>>]

\* `for channel_id, (messages, _) in ...` / `for messages, channel_name in
\* ...`: unpacking a tuple into two names
UnpacksAsPair(tuple) == Len(tuple) = 2

CombinedStart(ids, guild) ==
    /\ channel_ids = ids
    /\ guild_channels = guild
    /\ o_pc = "idle"
    /\ results = <<>>
    /\ o_result = NoneValue

CombinedUnused == CombinedStart(<<>>, <<>>)

\* generate_combined_summary line 283 entering collect_from_config,
\* lines 94-97
CollectFromConfig ==
    /\ o_pc = "idle"
    /\ o_pc' = "collecting"
    /\ results' = <<>>
    /\ UNCHANGED <<channel_ids, guild_channels, o_result, genVars>>

\* one collect_from_channel of collect_from_config: lines 103-105 for the
\* next configured channel, or lines 108-118 through collect_from_guild
\* (lines 64-82), whose results are tuples of three
CollectFromChannel ==
    /\ o_pc = "collecting"
    /\ UNCHANGED <<channel_ids, guild_channels, genVars>>
    /\ IF channel_ids # <<>>
       THEN IF Len(results) < Len(channel_ids)
            THEN \E msgs \in MessageLists, threads \in ThreadDatas :
                    /\ results' = Append(results,
                          ChannelEntry(channel_ids[Len(results) + 1], msgs,
                                       "general", NamedThreads(threads)))
                    /\ UNCHANGED <<o_pc, o_result>>
            ELSE /\ o_pc' = "collected"
                 /\ UNCHANGED <<results, o_result>>
       ELSE IF guild_channels # <<>>
       THEN \* line 114 unpacks collect_from_guild's first tuple
            \E msgs \in MessageLists, threads \in ThreadDatas :
               IF UnpacksAsPair(<<msgs, "general", NamedThreads(threads)>>)
               THEN /\ results' = IF msgs # <<>>
                                  THEN Append(results,
                                          [channel_id |-> guild_channels[1],
                                           value |-> <<msgs, "general">>])
                                  ELSE results
                    /\ o_pc' = "collected"
                    /\ UNCHANGED o_result
               ELSE /\ o_pc' = "done"
                    /\ o_result' = ValueError
                    /\ UNCHANGED results
       ELSE /\ o_pc' = "collected"
            /\ UNCHANGED <<results, o_result>>

\* generate_combined_summary, lines 285-319
GenerateCombinedSummary ==
    /\ o_pc = "collected"
    /\ o_pc' = "done"
    /\ UNCHANGED <<channel_ids, guild_channels, results, summarizer,
                   fallback_key, g_pc, g_messages, g_thread_data, g_index,
                   main_summary, provider_name, thread_summaries, g_result>>
    /\ IF \E i \in 1 .. Len(results) : ~UnpacksAsPair(results[i].value)
       THEN \* line 287 raises; nothing in this method catches it
            /\ o_result' = ValueError
            /\ UNCHANGED calls
       ELSE LET all == Concat([i \in 1 .. Len(results) |->
                                  results[i].value[1]])
            IN  IF all = <<>>
                THEN /\ o_result' = NoneValue
                     /\ UNCHANGED calls
                ELSE \E primaryText, fallbackText \in BOOLEAN :
                        LET r == GenerateSummaryWithFallback(summarizer,
                                     fallback_key, "All Channels",
                                     primaryText, fallbackText)
                        IN  /\ calls' = calls \o r.calls
                            /\ o_result' =
                                  IF r.text = <<>> THEN NoneValue
                                  ELSE CreateSummaryObject(summarizer, r.text,
                                           Len(all), "All Channels",
                                           "combined", r.provider)

\* generate_all_channel_summaries, lines 234-265: the loop body for each
\* entry of the mapping, outcomes[i] saying whether the primary and the
\* fallback backend return text for the i-th channel
RECURSIVE SummarizeEntries(_, _, _, _)
SummarizeEntries(primary, key, entries, outcomes) ==
    IF entries = <<>> THEN [entries |-> <<>>, calls |-> <<>>]
    ELSE LET e == Head(entries)
             msgs == e.value[1]
             name == e.value[2]
             r == GenerateSummaryWithFallback(primary, key, e.channel_id,
                      Head(outcomes)[1], Head(outcomes)[2])
             rest == SummarizeEntries(primary, key, Tail(entries),
                         Tail(outcomes))
         IN  IF msgs = <<>>
             THEN [entries |-> <<[channel_id |-> e.channel_id,
                                  summary |-> NoneValue]>> \o rest.entries,
                   calls |-> rest.calls]
             ELSE [entries |->
                      <<[channel_id |-> e.channel_id,
                         summary |-> IF r.text = <<>> THEN NoneValue
                                     ELSE CreateSummaryObject(primary, r.text,
                                              Len(msgs), name, e.channel_id,
                                              r.provider)]>> \o rest.entries,
                   calls |-> r.calls \o rest.calls]

\* generate_all_channel_summaries, lines 230-268, once collect_from_config
\* (line 228) has returned
GenerateAllChannelSummaries ==
    /\ o_pc = "collected"
    /\ o_pc' = "done_all"
    /\ UNCHANGED <<channel_ids, guild_channels, results, summarizer,
                   fallback_key, g_pc, g_messages, g_thread_data, g_index,
                   main_summary, provider_name, thread_summaries, g_result>>
    /\ IF \E i \in 1 .. Len(results) : ~UnpacksAsPair(results[i].value)
       THEN \* line 233 raises; nothing in this method catches it
            /\ o_result' = ValueError
            /\ UNCHANGED calls
       ELSE \E outcomes \in [1 .. Len(results) -> BOOLEAN \X BOOLEAN] :
               LET r == SummarizeEntries(summarizer, fallback_key, results,
                                         outcomes)
               IN  /\ o_result' = [kind |-> "dict", entries |-> r.entries]
                   /\ calls' = calls \o r.calls

CombinedNext == (CollectFromConfig \/ CollectFromChannel
                 \/ GenerateCombinedSummary \/ GenerateAllChannelSummaries)
                /\ UNCHANGED <<fetchVars, collectVars, normVars, schedVars,
                               textVars,
        serviceVars>>

(***************************************************************************)
(* _convert_to_message_model applied to the records of one page, as the    *)
(* loop of lines 218-221 applies it.  A raw record is built from the keys  *)
(* it holds; a key that is missing is not in its domain.                   *)
(***************************************************************************)
NoKey == [x \in {} |-> ""]
ContentParts == {NoKey, "content" :> "", "content" :> "hi"}
AuthorParts == {NoKey,
                "author" :> [bot |-> FALSE],
                "author" :> [bot |-> FALSE, username |-> "ann"],
                "author" :> [bot |-> FALSE, id |-> "7"],
                "author" :> [bot |-> FALSE, username |-> "ann", id |-> "7"]}
TimestampParts == {NoKey, "timestamp" :> (Now - 1),
                   "timestamp" :> BadTimestamp}
FullRawMessages == {("id" :> 9) @@ c @@ a @@ t :
                       c \in ContentParts, a \in AuthorParts,
                       t \in TimestampParts}

NormStart(page) ==
    /\ n_pc = "idle"
    /\ n_page = page
    /\ n_list = <<>>

NormUnused == NormStart(<<>>)

\* lines 218-221 over the page
Normalize ==
    /\ n_pc = "idle"
    /\ n_pc' = "done"
    /\ n_list' = ProcessAll(n_page)
    /\ UNCHANGED n_page

NormNext == Normalize
            /\ UNCHANGED <<fetchVars, collectVars, genVars, combinedVars,
                           schedVars, textVars,
        serviceVars>>

(***************************************************************************)
(* The scheduler: SummarySchedulerService.generate_and_post_summaries as   *)
(* run by the cron job and by run_now, on one asyncio event loop.  The     *)
(* collection and the summarization never yield to the loop (the reader    *)
(* and the summarizers are synchronous), so an execution runs without      *)
(* interleaving up to its first await on the Discord writer or on          *)
(* asyncio.sleep, and from one such await to the next.  load_config        *)
(* requires channel ids or a guild id: without channel ids a guild is      *)
(* configured and guild_channels are its text channels.                    *)
(***************************************************************************)
Tasks == {"cron", "run_now"}

Exception(error, handler) == [error |-> error, caught_in |-> handler]

\* line 125: the message built from the exception
ErrorMessageWithoutText(e) ==
    [prefix |-> "Error in scheduled summary generation: ", text |-> ""]
ErrorMessage(e) ==
    [prefix |-> "Error in scheduled summary generation: ", text |-> e.error]

\* collect_from_config, lines 94-123, as one call: collected[i] are the
\* main-channel messages of the i-th collect_from_channel
CollectFromConfigResult(ids, text_channels, collected) ==
    IF ids # <<>>
    THEN [kind |-> "mapping",
          entries |-> [i \in 1 .. Len(ids) |->
                          ChannelEntry(ids[i], collected[i], "general", <<>>)]]
    ELSE IF text_channels # <<>>
    THEN IF UnpacksAsPair(<<collected[1], "general", <<>>>>)
         THEN [kind |-> "mapping",
               entries |-> SelectSeq(
                   [i \in 1 .. Len(text_channels) |->
                       [channel_id |-> text_channels[i],
                        value |-> <<collected[i], "general">>]],
                   LAMBDA e : e.value[1] # <<>>)]
         ELSE ValueError
    ELSE [kind |-> "mapping", entries |-> <<>>]

\* generate_all_channel_summaries, lines 228-268, as one call
AllChannelSummaries(primary, key, mapping, outcomes) ==
    IF mapping = ValueError THEN ValueError
    ELSE IF \E i \in 1 .. Len(mapping.entries) :
               ~UnpacksAsPair(mapping.entries[i].value)
    THEN ValueError
    ELSE [kind |-> "dict",
          entries |-> SummarizeEntries(primary, key, mapping.entries,
                                       outcomes).entries]

\* generate_combined_summary, lines 283-319, as one call
CombinedSummaryResult(primary, key, mapping, outcome) ==
    IF mapping = ValueError THEN ValueError
    ELSE IF \E i \in 1 .. Len(mapping.entries) :
               ~UnpacksAsPair(mapping.entries[i].value)
    THEN ValueError
    ELSE LET all == Concat([i \in 1 .. Len(mapping.entries) |->
                               mapping.entries[i].value[1]])
             r == GenerateSummaryWithFallback(primary, key, "All Channels",
                      outcome[1], outcome[2])
         IN  IF all = <<>> \/ r.text = <<>> THEN NoneValue
             ELSE CreateSummaryObject(primary, r.text, Len(all),
                      "All Channels", "combined", r.provider)

SchedStart(debug) ==
    /\ is_running = FALSE
    /\ debug_mode = debug
    /\ ready = FALSE
    /\ t_pc = [t \in Tasks |-> "idle"]
    /\ t_runs = [t \in Tasks |-> 0]
    /\ t_summaries = [t \in Tasks |-> <<>>]
    /\ t_index = [t \in Tasks |-> 0]
    /\ t_raised = [t \in Tasks |-> <<>>]
    /\ t_errors = [t \in Tasks |-> <<>>]
    /\ t_collected = [t \in Tasks |-> <<>>]
    /\ t_posted = [t \in Tasks |-> <<>>]
    /\ destination = <<>>

SchedUnused == SchedStart(FALSE)

\* an execution of generate_and_post_summaries is between its first line
\* and its return
InProgress(t) == t_pc[t] \notin {"idle", "created", "done"}

\* main.py lines 113-120: on_ready starts the scheduler (lines 53-71) and,
\* in debug mode, creates the task that runs run_now
OnReady ==
    /\ ~ready
    /\ ready' = TRUE
    /\ is_running' = TRUE
    /\ t_pc' = IF debug_mode THEN [t_pc EXCEPT !["run_now"] = "created"]
               ELSE t_pc
    /\ UNCHANGED <<debug_mode, t_runs, t_summaries, t_index, t_raised,
                   t_errors, t_collected, t_posted, destination>>

\* lines 124-132: the handler of generate_and_post_summaries catches e,
\* calls post_error and waits for it
Handle(t, raised, errors, posted, e) ==
    /\ t_posted' = [t_posted EXCEPT ![t] = posted]
    /\ t_raised' = [t_raised EXCEPT ![t] = Append(raised, e)]
    /\ t_errors' = [t_errors EXCEPT ![t] = Append(errors, ErrorMessage(e))]
    /\ t_pc' = [t_pc EXCEPT ![t] = "post_error"]

\* lines 103, 117: a post_summary call, always for
\* self.destination_channel_id; summary is the position of the entry in
\* channel_summaries, 0 for the combined summary; returned is "pending"
\* until the call returns "True" or "False"
PostSummaryCall(summary) ==
    [channel_id |-> "destination", summary |-> summary, returned |-> "pending"]

\* lines 100-119 from position from of the loop: the next summary to post,
\* or the combined summary when the mapping has more than one entry
Continue(t, entries, from, raised, errors, posted) ==
    LET toPost == {i \in (from + 1) .. Len(entries) :
                      entries[i].summary # NoneValue}
        next == CHOOSE i \in toPost : \A j \in toPost : i <= j
    IN  IF toPost # {}
        THEN /\ t_index' = [t_index EXCEPT ![t] = next]
             /\ t_posted' = [t_posted EXCEPT ![t] =
                                Append(posted, PostSummaryCall(next))]
             /\ t_pc' = [t_pc EXCEPT ![t] = "post_summary"]
             /\ t_raised' = [t_raised EXCEPT ![t] = raised]
             /\ t_errors' = [t_errors EXCEPT ![t] = errors]
        ELSE /\ t_index' = [t_index EXCEPT ![t] = Len(entries)]
             /\ IF Len(entries) > 1
                THEN \E collected \in [1 .. MaxChannels -> MessageLists],
                        outcome \in BOOLEAN \X BOOLEAN :
                        LET c == CombinedSummaryResult(summarizer,
                                     fallback_key,
                                     CollectFromConfigResult(channel_ids,
                                         guild_channels, collected),
                                     outcome)
                        IN  IF c = ValueError
                            THEN Handle(t, raised, errors, posted,
                                     Exception("ValueError",
                                         "generate_and_post_summaries"))
                            ELSE /\ t_pc' = [t_pc EXCEPT ![t] =
                                        IF c = NoneValue THEN "done"
                                        ELSE "post_combined"]
                                 /\ t_posted' = [t_posted EXCEPT ![t] =
                                        IF c = NoneValue THEN posted
                                        ELSE Append(posted,
                                                PostSummaryCall(0))]
                                 /\ t_raised' = [t_raised EXCEPT ![t] = raised]
                                 /\ t_errors' = [t_errors EXCEPT ![t] =
                                                    errors]
                ELSE /\ t_pc' = [t_pc EXCEPT ![t] = "done"]
                     /\ t_posted' = [t_posted EXCEPT ![t] = posted]
                     /\ t_raised' = [t_raised EXCEPT ![t] = raised]
                     /\ t_errors' = [t_errors EXCEPT ![t] = errors]

\* generate_and_post_summaries from line 90 to its first await that
\* suspends: failed says that an exception was raised and handled inside
\* the collection (in _make_request, lines 99-101, by the guild request, or
\* in collect_messages, lines 234-236), which then yields nothing
Run(t) ==
    /\ t_runs[t] < MaxRuns
    /\ t_runs' = [t_runs EXCEPT ![t] = @ + 1]
    /\ UNCHANGED <<is_running, debug_mode, ready, destination>>
    /\ \E failed \in BOOLEAN,
          collected \in [1 .. MaxChannels -> MessageLists],
          outcomes \in [1 .. MaxChannels -> BOOLEAN \X BOOLEAN] :
          LET inside == IF failed
                        THEN <<Exception(IF channel_ids # <<>>
                                         THEN "AttributeError"
                                         ELSE "ConnectionError",
                                         IF channel_ids # <<>>
                                         THEN "collect_messages"
                                         ELSE "_make_request")>>
                        ELSE <<>>
              text == IF failed THEN <<>> ELSE guild_channels
              n == IF channel_ids # <<>> THEN Len(channel_ids) ELSE Len(text)
              result == AllChannelSummaries(summarizer, fallback_key,
                            CollectFromConfigResult(channel_ids, text,
                                                    collected),
                            outcomes)
          IN  /\ failed => \A i \in 1 .. MaxChannels : collected[i] = <<>>
              /\ t_collected' = [t_collected EXCEPT ![t] =
                                    [i \in 1 .. n |-> collected[i]]]
              /\ IF result = ValueError
                 THEN /\ Handle(t, inside, <<>>, <<>>, Exception("ValueError",
                             "generate_and_post_summaries"))
                      /\ t_summaries' = [t_summaries EXCEPT ![t] = <<>>]
                      /\ t_index' = [t_index EXCEPT ![t] = 0]
                 ELSE /\ t_summaries' = [t_summaries EXCEPT ![t] =
                                            result.entries]
                      /\ Continue(t, result.entries, 0, inside, <<>>, <<>>)

\* the scheduler fires the cron job (lines 58-63); the job runs one
\* instance at a time
CronFires ==
    /\ is_running
    /\ t_pc["cron"] \in {"idle", "done"}
    /\ Run("cron")

\* the event loop starts the task created at main.py line 120: run_now,
\* lines 134-139
RunNow ==
    /\ t_pc["run_now"] = "created"
    /\ Run("run_now")

\* the await an execution is suspended at completes: post_summary (line
\* 102), asyncio.sleep (line 107), post_summary of the combined summary
\* (line 116) or post_error (line 129); the writer's posts never raise
\* (discord_writer.py lines 227-229, 277-279) and may fail to deliver
Resume(t) ==
    /\ t_pc[t] \in {"post_summary", "sleep", "post_combined", "post_error"}
    /\ UNCHANGED <<is_running, debug_mode, ready, t_runs, t_summaries,
                   t_collected>>
    /\ IF t_pc[t] = "post_error"
       THEN /\ \E delivered \in BOOLEAN :
                  destination' = IF delivered
                                 THEN Append(destination,
                                         [task |-> t, kind |-> "error",
                                          body |-> Last(t_errors[t])])
                                 ELSE destination
            /\ t_pc' = [t_pc EXCEPT ![t] = "done"]
            /\ UNCHANGED <<t_index, t_raised, t_errors, t_posted>>
       ELSE IF t_pc[t] = "sleep"
       THEN /\ Continue(t, t_summaries[t], t_index[t], t_raised[t],
                        t_errors[t], t_posted[t])
            /\ UNCHANGED destination
       ELSE /\ \E delivered \in BOOLEAN :
                  /\ destination' = IF delivered
                                    THEN Append(destination,
                                            [task |-> t, kind |-> "summary",
                                             body |-> NoneValue])
                                    ELSE destination
                  /\ t_posted' = [t_posted EXCEPT ![t] =
                         [@ EXCEPT ![Len(@)].returned =
                             IF delivered THEN "True" ELSE "False"]]
            /\ t_pc' = [t_pc EXCEPT ![t] =
                           IF t_pc[t] = "post_summary" THEN "sleep"
                           ELSE "done"]
            /\ UNCHANGED <<t_index, t_raised, t_errors>>

SchedNext == (OnReady \/ CronFires \/ RunNow \/ \E t \in Tasks : Resume(t))
             /\ UNCHANGED <<fetchVars, collectVars, genVars, combinedVars,
                            normVars, textVars,
        serviceVars>>

(***************************************************************************)
(* Prompt selection: PromptTemplates.get_prompts, reached from the         *)
(* summarizers' generate_summary, and _detect_prompt_type.  A channel      *)
(* label is a sequence of words; each word of Words contains, once lower-  *)
(* cased, exactly the keyword it spells ("chat" contains none).            *)
(***************************************************************************)
PromptKeys == {"general", "defi", "crypto"}
DefiTerms == {"defi", "yield", "farm", "staking", "liquidity", "lp", "lending",
              "borrowing", "amm", "swap", "stable"}
CryptoTerms == {"crypto", "bitcoin", "ethereum", "btc", "eth", "token", "coin",
                "trading", "market", "airdrop"}
TechnicalTerms == {"dev", "code", "programming", "tech", "engineering"}
GamingTerms == {"game", "gaming", "play", "stream"}

Words == {"DeFi", "crypto", "dev", "game", "chat"}
Labels == SeqsUpTo(Words, MaxWords)
PromptTypes == PromptKeys \cup {"technical", "gaming"}

\* str.lower()
Lower(word) == IF word = "DeFi" THEN "defi" ELSE word

\* any(term in label.lower() for term in terms)
Mentions(label, terms) == \E i \in 1 .. Len(label) : Lower(label[i]) \in terms

\* summary_generator.py lines 321-338
DetectPromptType(label) ==
    IF Mentions(label, TechnicalTerms) THEN "technical"
    ELSE IF Mentions(label, GamingTerms) THEN "gaming"
    ELSE None

\* prompts.py lines 171-189: the key of the entry of SPECIALIZED_PROMPTS
\* that is returned (no override is passed by the summarizers' callers)
GetPrompts(label, prompt_type) ==
    IF prompt_type # None /\ prompt_type \in PromptKeys
    THEN prompt_type
    ELSE IF label # <<>>
    THEN IF Mentions(label, DefiTerms) THEN "defi"
         ELSE IF Mentions(label, CryptoTerms) THEN "crypto"
         ELSE "general"
    ELSE "general"

\* prompts.py lines 24-136: the prompt texts the class is defined with
BuiltInPrompts ==
    [key \in PromptKeys |->
       IF key = "general"
       THEN [system_prompt |-> "DEFAULT_SYSTEM_PROMPT",
             user_prompt |-> "DEFAULT_USER_PROMPT"]
       ELSE IF key = "defi"
       THEN [system_prompt |-> "defi system prompt",
             user_prompt |-> "defi user prompt"]
       ELSE [system_prompt |-> "crypto system prompt",
             user_prompt |-> "crypto user prompt"]]

\* the override arguments a caller may pass
Overrides == {None, "custom prompt"}

\* prompts.py lines 191-196: the assignments into the selected dict
ApplyOverrides(prompts, override_system_prompt, override_user_prompt) ==
    [system_prompt |-> IF override_system_prompt # None
                       THEN override_system_prompt
                       ELSE prompts.system_prompt,
     user_prompt |-> IF override_user_prompt # None
                     THEN override_user_prompt
                     ELSE prompts.user_prompt]

PromptStart(label, type) ==
    /\ p_pc = "idle"
    /\ p_channel_name = label
    /\ p_prompt_type = type
    /\ p_prompts = None
    /\ SPECIALIZED_PROMPTS = BuiltInPrompts
    /\ o_calls = 0
    /\ o_last = [key |-> None, override_system_prompt |-> None,
                 override_user_prompt |-> None,
                 returned |-> [system_prompt |-> None, user_prompt |-> None]]

\* generate_summary called with the prompt_type its caller passed
\* (summary_generator.py lines 69-73, 155-159; anthropic.py lines 66-71)
PassedPromptType ==
    /\ p_pc = "idle"
    /\ p_pc' = "passed"
    /\ p_prompts' = GetPrompts(p_channel_name, p_prompt_type)
    /\ UNCHANGED <<p_channel_name, p_prompt_type, SPECIALIZED_PROMPTS,
                   o_calls, o_last>>

\* generate_all_channel_summaries, lines 242-249: the prompt type is the
\* one _detect_prompt_type returns for the channel name
DetectedPromptType ==
    /\ p_pc = "idle"
    /\ p_pc' = "detected"
    /\ p_prompt_type' = DetectPromptType(p_channel_name)
    /\ p_prompts' = GetPrompts(p_channel_name, p_prompt_type')
    /\ UNCHANGED <<p_channel_name, SPECIALIZED_PROMPTS, o_calls, o_last>>

\* get_prompts called with override arguments (anthropic.py lines 66-71,
\* deepseek.py lines 70-75).  prompts is the dict object held by
\* SPECIALIZED_PROMPTS (lines 172-189), so the assignments of lines 192-196
\* are assignments into the table's entry.
GetPromptsCall ==
    /\ o_calls < MaxPromptCalls
    /\ \E label \in Labels, type \in PromptTypes \cup {None},
          override_system_prompt \in Overrides,
          override_user_prompt \in Overrides :
          LET key == GetPrompts(label, type)
              prompts == ApplyOverrides(SPECIALIZED_PROMPTS[key],
                                        override_system_prompt,
                                        override_user_prompt)
          IN  /\ SPECIALIZED_PROMPTS'
                   = [SPECIALIZED_PROMPTS EXCEPT ![key] = prompts]
              /\ o_last' = [key |-> key,
                            override_system_prompt |-> override_system_prompt,
                            override_user_prompt |-> override_user_prompt,
                            returned |-> prompts]
    /\ o_calls' = o_calls + 1
    /\ UNCHANGED <<p_pc, p_channel_name, p_prompt_type, p_prompts>>

OverrideNext == GetPromptsCall
                /\ UNCHANGED <<fetchVars, collectVars, genVars, combinedVars,
                               normVars, schedVars, truncateVars, formatVars,
        serviceVars>>

PromptNext == (PassedPromptType \/ DetectedPromptType)
              /\ UNCHANGED <<fetchVars, collectVars, genVars, combinedVars,
                             normVars, schedVars, truncateVars, formatVars,
        serviceVars>>

(***************************************************************************)
(* BaseSummarizer._truncate_messages: a text is a sequence of characters,  *)
(* "\n" ending a line.  The budgets of the program (12000 and 25000        *)
(* characters, 10000 by default) are scaled to 1 .. MaxBudget.             *)
(***************************************************************************)
Chars == {"a", "\n"}
Texts == SeqsUpTo(Chars, MaxText)
Budgets == 1 .. MaxBudget

\* text[-n:] for n <= len(text)
SuffixFrom(text, n) ==
    IF n = 0 THEN text ELSE SubSeq(text, Len(text) - n + 1, Len(text))

\* base.py lines 113-119
TruncateMessagesKeepsPrefix(formatted_messages, max_length) ==
    IF Len(formatted_messages) <= max_length THEN formatted_messages
    ELSE SubSeq(formatted_messages, 1, max_length)
TruncateMessages(formatted_messages, max_length) ==
    IF Len(formatted_messages) <= max_length THEN formatted_messages
    ELSE SuffixFrom(formatted_messages, max_length)

TruncateStart(text, budget) ==
    /\ x_pc = "idle"
    /\ x_formatted_messages = text
    /\ x_max_length = budget
    /\ x_result = <<>>

\* one call of _truncate_messages (anthropic.py line 63, deepseek.py line 67)
Truncate ==
    /\ x_pc = "idle"
    /\ x_pc' = "done"
    /\ x_result' = TruncateMessages(x_formatted_messages, x_max_length)
    /\ UNCHANGED <<x_formatted_messages, x_max_length>>

TruncateNext == Truncate
                /\ UNCHANGED <<fetchVars, collectVars, genVars, combinedVars,
                               normVars, schedVars, promptVars, formatVars,
        serviceVars>>

(***************************************************************************)
(* BaseSummarizer._format_messages_for_prompt.  Timestamps are counted in  *)
(* half seconds; formatted_time keeps whole seconds.  A line is the record *)
(* of the three parts of "[time] username: content", and the text joined   *)
(* with "\n" is the sequence of its lines.                                 *)
(***************************************************************************)
Timestamps == 0 .. MaxTimestamp
Usernames == {"ann"}
MessageContents == {"hi", "yo"}
DiscordMessages == [timestamp : Timestamps, username : Usernames,
                    content : MessageContents]

\* message.py lines 29-37: strftime("%Y-%m-%d %H:%M:%S")
FormattedTime(timestamp) == timestamp \div 2

\* message.py lines 39-47
FormattedContent(m) ==
    [time |-> FormattedTime(m.timestamp), username |-> m.username,
     content |-> m.content]

\* base.py line 97: sorted(messages, key=lambda m: m.timestamp), which
\* keeps the input order of messages with equal timestamps
SortedKeepsInputOrder(msgs) == msgs
SortedByTimestamp(msgs) ==
    LET rank(i) == Cardinality({j \in 1 .. Len(msgs) :
                       \/ msgs[j].timestamp < msgs[i].timestamp
                       \/ msgs[j].timestamp = msgs[i].timestamp /\ j < i})
    IN  [k \in 1 .. Len(msgs) |->
            msgs[CHOOSE i \in 1 .. Len(msgs) : rank(i) = k - 1]]

\* base.py lines 96-100
FormatMessagesForPrompt(msgs) ==
    LET sorted_messages == SortedByTimestamp(msgs)
    IN  [k \in 1 .. Len(sorted_messages) |->
            FormattedContent(sorted_messages[k])]

FormatStart(msgs) ==
    /\ m_pc = "idle"
    /\ m_messages = msgs
    /\ m_text = <<>>

\* one call of _format_messages_for_prompt (anthropic.py line 60,
\* deepseek.py line 64)
Format ==
    /\ m_pc = "idle"
    /\ m_pc' = "done"
    /\ m_text' = FormatMessagesForPrompt(m_messages)
    /\ UNCHANGED m_messages

FormatNext == Format
              /\ UNCHANGED <<fetchVars, collectVars, genVars, combinedVars,
                             normVars, schedVars, promptVars, truncateVars,
        serviceVars>>

(***************************************************************************)
(* The scheduler's life cycle: SummarySchedulerService.start and stop,     *)
(* called by the on-ready callback and the shutdown task of main.py.       *)
(* Neither start nor stop awaits anything, so each call is one step.       *)
(***************************************************************************)
LifecycleStart ==
    /\ scheduler_state = "stopped"
    /\ add_job_calls = 0
    /\ scheduler_starts = 0
    /\ shutdown_calls = 0
    /\ on_ready_calls = 0
    /\ signals = 0
    /\ run_now_tasks = 0
    /\ shutdown_event = FALSE

\* summary_scheduler.py lines 53-55: the guard of start()
AlreadyRunningNever(running) == FALSE
AlreadyRunning(running) == running

\* main.py lines 113-120, discord_writer.py lines 59-64: the on-ready
\* callback awaits start() (summary_scheduler.py lines 49-71) and, in debug
\* mode, creates a run_now task.  The client calls it on every ready event.
OnReadyCallback ==
    /\ on_ready_calls < MaxOnReady
    /\ on_ready_calls' = on_ready_calls + 1
    /\ IF AlreadyRunning(is_running)
       THEN UNCHANGED <<is_running, scheduler_state, add_job_calls,
                        scheduler_starts>>
       ELSE /\ add_job_calls' = add_job_calls + 1
            /\ scheduler_starts' = scheduler_starts + 1
            /\ scheduler_state' = "running"
            /\ is_running' = TRUE
    /\ run_now_tasks' = IF debug_mode THEN run_now_tasks + 1
                        ELSE run_now_tasks
    /\ UNCHANGED <<shutdown_calls, signals, shutdown_event>>

\* main.py lines 140, 147-161: every SIGINT or SIGTERM creates a shutdown
\* task, which awaits stop() (summary_scheduler.py lines 73-84) and sets
\* shutdown_event
ShutdownSignal ==
    /\ signals < MaxSignals
    /\ signals' = signals + 1
    /\ IF ~is_running
       THEN UNCHANGED <<is_running, scheduler_state, shutdown_calls>>
       ELSE /\ shutdown_calls' = shutdown_calls + 1
            /\ scheduler_state' = "stopped"
            /\ is_running' = FALSE
    /\ shutdown_event' = TRUE
    /\ UNCHANGED <<add_job_calls, scheduler_starts, on_ready_calls,
                   run_now_tasks>>

LifecycleNext == (OnReadyCallback \/ ShutdownSignal)
                 /\ UNCHANGED <<fetchVars, collectVars, genVars, combinedVars,
                                normVars, textVars, writerVars, debug_mode,
                                ready, t_pc,
                                t_runs, t_summaries, t_index, t_raised,
                                t_errors, t_collected, t_posted, destination>>

(***************************************************************************)
(* DiscordWriterClient.post_summary.  The call suspends at wait_until_     *)
(* ready, at channel.send, at fetch_channel and at the HTTP request; what  *)
(* runs between two of them is one step.                                   *)
(***************************************************************************)
PostedTitles == {"general", "All Channels"}
HttpStatuses == {200, 403, 500}

WriterStart(client_ready) ==
    /\ w_pc = "idle"
    /\ is_ready = client_ready
    /\ w_summary = None
    /\ success = FALSE
    /\ w_delivered = {}
    /\ w_exceptions = {}
    /\ w_result = "pending"
    /\ w_posts = 0
    /\ w_channel = <<>>

\* line 187: the direct HTTP request is made only if not success
TriesHttpAlways(succeeded) == TRUE
TriesHttp(succeeded) == ~succeeded

\* line 225: return success
ReturnSuccess(succeeded) ==
    /\ w_result' = (IF succeeded THEN "True" ELSE "False")
    /\ w_pc' = "returned"

\* lines 187-225, reached with success as the first two approaches left it
AfterChannelApproaches(succeeded) ==
    IF TriesHttp(succeeded)
    THEN /\ w_pc' = "http"
         /\ UNCHANGED w_result
    ELSE ReturnSuccess(succeeded)

\* a message arrives in the channel through approach
Deliver(approach) ==
    /\ w_delivered' = w_delivered \cup {approach}
    /\ w_channel' = Append(w_channel,
                           [summary |-> w_summary, approach |-> approach])

\* lines 133-137: a call of post_summary, up to the wait for the client
PostSummary ==
    /\ w_pc \in {"idle", "returned"}
    /\ w_posts < MaxPosts
    /\ w_posts' = w_posts + 1
    /\ \E title \in PostedTitles : w_summary' = title
    /\ w_pc' = "wait_until_ready"
    /\ success' = FALSE
    /\ w_delivered' = {}
    /\ w_exceptions' = {}
    /\ w_result' = "pending"
    /\ UNCHANGED <<is_ready, w_channel>>

\* lines 107-120, 141-147, 162-166: the client became ready or the wait
\* timed out, and is_ready is set either way; get_channel finds the channel
\* in the cache or not
WaitUntilReady ==
    /\ w_pc = "wait_until_ready"
    /\ is_ready' = TRUE
    /\ \E cached \in BOOLEAN :
          w_pc' = IF cached THEN "send_cached" ELSE "fetch_channel"
    /\ UNCHANGED <<w_summary, success, w_delivered, w_exceptions, w_result,
                   w_posts, w_channel>>

\* lines 148-161, 227-229: channel.send on the cached channel returns, or
\* raises into the handler of the whole body
SendCached ==
    /\ w_pc = "send_cached"
    /\ \E returned \in BOOLEAN :
          IF returned
          THEN /\ Deliver("cached")
               /\ success' = TRUE
               /\ AfterChannelApproaches(TRUE)
               /\ UNCHANGED w_exceptions
          ELSE /\ w_exceptions' = w_exceptions \cup {"send_cached"}
               /\ ReturnSuccess(FALSE)
               /\ UNCHANGED <<success, w_delivered, w_channel>>
    /\ UNCHANGED <<is_ready, w_summary, w_posts>>

\* lines 165-169, 184-185: fetch_channel returns a channel, returns nothing
\* or raises into the inner handler
FetchChannel ==
    /\ w_pc = "fetch_channel"
    /\ \E outcome \in {"channel", "none", "raised"} :
          /\ w_exceptions' = IF outcome = "raised"
                             THEN w_exceptions \cup {"fetch_channel"}
                             ELSE w_exceptions
          /\ IF outcome = "channel"
             THEN /\ w_pc' = "send_fetched"
                  /\ UNCHANGED w_result
             ELSE AfterChannelApproaches(success)
    /\ UNCHANGED <<is_ready, w_summary, success, w_delivered, w_posts,
                   w_channel>>

\* lines 170-185: channel.send on the fetched channel returns, or raises
\* into the inner handler
SendFetched ==
    /\ w_pc = "send_fetched"
    /\ \E returned \in BOOLEAN :
          IF returned
          THEN /\ Deliver("fetched")
               /\ success' = TRUE
               /\ AfterChannelApproaches(TRUE)
               /\ UNCHANGED w_exceptions
          ELSE /\ w_exceptions' = w_exceptions \cup {"send_fetched"}
               /\ AfterChannelApproaches(success)
               /\ UNCHANGED <<success, w_delivered, w_channel>>
    /\ UNCHANGED <<is_ready, w_summary, w_posts>>

\* lines 189-225: the direct request is answered with a status (the
\* message is created exactly when it is 200) or raises into the handler
\* of line 222
HttpPost ==
    /\ w_pc = "http"
    /\ \E status \in HttpStatuses \cup {Absent} :
          IF status = 200
          THEN /\ Deliver("http")
               /\ success' = TRUE
               /\ ReturnSuccess(TRUE)
               /\ UNCHANGED w_exceptions
          ELSE /\ w_exceptions' = IF status = Absent
                                  THEN w_exceptions \cup {"http"}
                                  ELSE w_exceptions
               /\ ReturnSuccess(success)
               /\ UNCHANGED <<success, w_delivered, w_channel>>
    /\ UNCHANGED <<is_ready, w_summary, w_posts>>

PostNext == (PostSummary \/ WaitUntilReady \/ SendCached \/ FetchChannel
             \/ SendFetched \/ HttpPost)
            /\ UNCHANGED <<fetchVars, collectVars, genVars, combinedVars,
                           normVars, schedVars, textVars, lifeVars>>

ServiceUnused == LifecycleStart /\ WriterStart(FALSE)

TextUnused ==
    /\ PromptStart(<<>>, None)
    /\ TruncateStart(<<>>, 1)
    /\ FormatStart(<<>>)

CollectUnused == CollectStart(ConstructedConfig, "finite", <<>>, <<>>)

\* the fetcher alone
InitFetch ==
    /\ ServiceUnused
    /\ TextUnused
    /\ FetchInit /\ CollectUnused /\ GenUnused /\ CombinedUnused
    /\ NormUnused /\ SchedUnused
SpecFetch == InitFetch /\ [][FetchNext]_vars

\* the collector against a source with finitely many records
InitCollect ==
    /\ ServiceUnused
    /\ TextUnused
    /\ FetchInit /\ GenUnused /\ CombinedUnused /\ NormUnused /\ SchedUnused
    /\ \E cfg \in Configs, history \in MainHistories, threads \in ActiveLists :
          CollectStart(cfg, "finite", history, threads)
SpecCollect == InitCollect /\ [][CollectNext]_vars

\* the collector against a source that answers every page request with a
\* full page in the window
InitFlood ==
    /\ ServiceUnused
    /\ TextUnused
    /\ FetchInit /\ GenUnused /\ CombinedUnused /\ NormUnused /\ SchedUnused
    /\ \E cfg \in Configs, history \in MainHistories, threads \in ActiveLists :
          CollectStart(cfg, "flood", history, threads)
SpecFlood == InitFlood /\ [][CollectNext]_vars

\* generate_channel_summary over every collection outcome
InitGen ==
    /\ ServiceUnused
    /\ TextUnused
    /\ FetchInit /\ CollectUnused /\ CombinedUnused /\ NormUnused
    /\ SchedUnused
    /\ \E p \in Providers, key \in BOOLEAN : GenStart(p, key)
SpecGen == InitGen /\ [][GenNext]_vars

\* generate_combined_summary over every configuration
InitCombined ==
    /\ ServiceUnused
    /\ TextUnused
    /\ FetchInit /\ CollectUnused /\ NormUnused /\ SchedUnused
    /\ \E p \in Providers, key \in BOOLEAN : GenStart(p, key)
    /\ \E ids \in ChannelLists, guild \in ChannelLists :
          CombinedStart(ids, guild)
SpecCombined == InitCombined /\ [][CombinedNext]_vars

\* _convert_to_message_model over every page of raw records
InitNormalize ==
    /\ ServiceUnused
    /\ TextUnused
    /\ FetchInit /\ CollectUnused /\ GenUnused /\ CombinedUnused
    /\ SchedUnused
    /\ \E page \in SeqsUpTo(FullRawMessages, PageLimit) : NormStart(page)
SpecNormalize == InitNormalize /\ [][NormNext]_vars

\* the scheduler of run_scheduled over every configuration
InitSchedule ==
    /\ ServiceUnused
    /\ TextUnused
    /\ FetchInit /\ CollectUnused /\ NormUnused
    /\ \E p \in Providers, key \in BOOLEAN : GenStart(p, key)
    /\ \E ids \in ChannelLists, guild \in ChannelLists :
          CombinedStart(ids, guild)
    /\ \E debug \in BOOLEAN : SchedStart(debug)
SpecSchedule == InitSchedule /\ [][SchedNext]_vars

\* get_prompts over every label and prompt type
InitPrompt ==
    /\ ServiceUnused
    /\ FetchInit /\ CollectUnused /\ GenUnused /\ CombinedUnused
    /\ NormUnused /\ SchedUnused
    /\ TruncateStart(<<>>, 1) /\ FormatStart(<<>>)
    /\ \E label \in Labels, type \in PromptTypes \cup {None} :
          PromptStart(label, type)
SpecPrompt == InitPrompt /\ [][PromptNext]_vars

\* get_prompts called repeatedly with and without override arguments
InitOverride ==
    /\ ServiceUnused
    /\ FetchInit /\ CollectUnused /\ GenUnused /\ CombinedUnused
    /\ NormUnused /\ SchedUnused /\ TextUnused
SpecOverride == InitOverride /\ [][OverrideNext]_vars

\* on-ready callbacks and shutdown signals in every order
InitLifecycle ==
    /\ FetchInit /\ CollectUnused /\ GenUnused /\ CombinedUnused
    /\ NormUnused /\ TextUnused
    /\ \E debug \in BOOLEAN : SchedStart(debug)
    /\ LifecycleStart
    /\ WriterStart(FALSE)
SpecLifecycle == InitLifecycle /\ [][LifecycleNext]_vars

\* post_summary calls, the client ready or not at the first of them
InitPost ==
    /\ FetchInit /\ CollectUnused /\ GenUnused /\ CombinedUnused
    /\ NormUnused /\ SchedUnused /\ TextUnused
    /\ LifecycleStart
    /\ \E client_ready \in BOOLEAN : WriterStart(client_ready)
SpecPost == InitPost /\ [][PostNext]_vars

\* _truncate_messages over every text and budget
InitTruncate ==
    /\ ServiceUnused
    /\ FetchInit /\ CollectUnused /\ GenUnused /\ CombinedUnused
    /\ NormUnused /\ SchedUnused
    /\ PromptStart(<<>>, None) /\ FormatStart(<<>>)
    /\ \E text \in Texts, budget \in Budgets : TruncateStart(text, budget)
SpecTruncate == InitTruncate /\ [][TruncateNext]_vars

\* _format_messages_for_prompt over every batch, in every order
InitFormat ==
    /\ ServiceUnused
    /\ FetchInit /\ CollectUnused /\ GenUnused /\ CombinedUnused
    /\ NormUnused /\ SchedUnused
    /\ PromptStart(<<>>, None) /\ TruncateStart(<<>>, 1)
    /\ \E msgs \in SeqsUpTo(DiscordMessages, MaxFormatted) : FormatStart(msgs)
SpecFormat == InitFormat /\ [][FormatNext]_vars

(***************************************************************************)
(* Properties of the collector.                                            *)
(***************************************************************************)
\* the records of a page that carry text and satisfy keep, as Messages
TextRecords(page, keep(_)) ==
    LET sel == SelectSeq(page, LAMBDA m : m.content # "" /\ keep(m))
    IN  [i \in 1 .. Len(sel) |->
            [kind |-> "message", id |-> sel[i].id, content |-> sel[i].content,
             username |-> "Unknown", user_id |-> "0",
             timestamp |-> sel[i].timestamp]]

\* C1: in the paging loop, a fetched page (of records with parsable
\* timestamps) whose last, oldest record is older than the threshold adds
\* exactly its records with text and timestamp >= threshold to the thread's
\* messages and ends the paging of that thread, the thread's entry being
\* closed with what all earlier pages left; a page that does not reach past
\* the threshold is kept in full (every record with text) and paging goes on
\* until the cap.
C1_CutoffPage ==
    [][(/\ c_pc = "paging"
        /\ thread_requests' = thread_requests + 1
        /\ thread_batch' # <<>>
        /\ \A i \in 1 .. Len(thread_batch') :
              thread_batch'[i].timestamp # BadTimestamp)
       => IF thread_batch'[Len(thread_batch')].timestamp < time_threshold
          THEN /\ thread_messages' = thread_messages
                     \o TextRecords(thread_batch',
                           LAMBDA m : m.timestamp >= time_threshold)
               /\ c_pc' = "threads"
               /\ thread_data' = Append(thread_data,
                     [messages |-> thread_messages',
                      name |-> ThreadName(active_threads[thread_index])])
          ELSE /\ thread_messages' = thread_messages
                     \o TextRecords(thread_batch', LAMBDA m : TRUE)
               /\ c_pc' = "paging" \/ thread_requests' >= MAX_TOTAL_REQUESTS
      ]_vars

\* C1 witness: a thread closed by its second page, a cutoff page of which
\* one record was kept and one dropped, after a first page kept in full
C1_Witness ==
    /\ c_pc = "threads"
    /\ thread_requests = 2
    /\ Len(thread_batch) = 2
    /\ thread_batch[1].timestamp >= time_threshold
    /\ thread_batch[1].content # ""
    /\ thread_batch[2].timestamp # BadTimestamp
    /\ thread_batch[2].timestamp < time_threshold
    /\ thread_data # <<>>
    /\ Len(Last(thread_data).messages) = 3
    /\ Last(Last(thread_data).messages).id = thread_batch[1].id

\* C2: the HTTP requests sent while collecting one channel, those of its
\* threads included, never exceed the cap of 500.
C2_RequestCap == http_requests <= MAX_TOTAL_REQUESTS

\* C3: with every request answered successfully, collect returns as its
\* main-channel list every record of the channel that has text and a
\* timestamp >= now - windowDays.
C3_MainChannelMessages ==
    (c_pc = "done" /\ channel_name = "general" /\ rate_limited = 0)
    => c_result.messages
         = TextRecords(main_history, LAMBDA m : m.timestamp >= time_threshold)

(***************************************************************************)
(* Properties of the summary orchestrator.                                 *)
(***************************************************************************)
\* the backend calls that returned text, and those made for the main channel
CallsWithText == {i \in 1 .. Len(calls) : calls[i].text}
MainCalls == {i \in 1 .. Len(calls) : calls[i].label = "channel"}

\* C4: for every collection outcome (messages in the main channel and/or in
\* threads), when the primary backend returned nothing for a batch and the
\* fallback returned text for it, generate_channel_summary returns a Summary
\* whose provider_name is the fallback provider's name.  Stated for the runs
\* in which the primary produced no text at all, so that the fallback is the
\* only backend that produced any.
C4_FallbackProviderNamed ==
    (/\ g_pc = "done"
     /\ \E i \in CallsWithText : calls[i].provider # summarizer
     /\ \A i \in CallsWithText : calls[i].provider # summarizer)
    => /\ g_result.kind = "summary"
       /\ g_result.provider_name # summarizer
       /\ \E i \in CallsWithText : g_result.provider_name = calls[i].provider

\* C5: when both providers return nothing for the (non-empty) main channel
\* and at least one thread is summarized, the Summary's content starts with
\* the "## Thread Summaries" header, holds no text generated for the main
\* channel, and provider_name is a provider that produced a thread summary.
C5_ThreadsOnlySummary ==
    (/\ g_pc = "done"
     /\ g_messages # <<>>
     /\ MainCalls \cap CallsWithText = {}
     /\ CallsWithText # {})
    => /\ g_result.kind = "summary"
       /\ Head(g_result.content) = Lit("## Thread Summaries\n")
       /\ \A k \in 1 .. Len(g_result.content) :
             g_result.content[k].kind = "generated"
             => g_result.content[k].of # "channel"
       /\ \E i \in CallsWithText : g_result.provider_name = calls[i].provider

\* C5 witness: primary and fallback both failed on the main channel, and the
\* one thread was summarized by the fallback provider
C5_Witness ==
    /\ g_pc = "done"
    /\ g_messages # <<>>
    /\ Cardinality(MainCalls) = 2
    /\ MainCalls \cap CallsWithText = {}
    /\ Cardinality(CallsWithText) = 1
    /\ g_result.kind = "summary"
    /\ g_result.provider_name # summarizer
    /\ Len(g_result.content) = 4

\* C6: provider_name of the returned Summary is the provider that produced
\* the main summary when there is one, otherwise the provider that produced
\* the first successful thread summary in thread order.
C6_ProviderOfFirstSuccess ==
    (g_pc = "done" /\ g_result.kind = "summary" /\ CallsWithText # {})
    => LET first == CHOOSE i \in CallsWithText :
                       \A j \in CallsWithText : i <= j
       IN  g_result.provider_name = calls[first].provider

\* C7: for every collection outcome, when no backend call produced text for
\* the main channel nor for any thread, generate_channel_summary returns
\* absent.
C7_NothingSucceededIsAbsent ==
    (g_pc = "done" /\ CallsWithText = {}) => g_result = NoneValue

(***************************************************************************)
(* Properties of the combined summary.                                     *)
(***************************************************************************)
\* C8: over configured channels whose collections hold n1..nk messages, at
\* least one of them non-empty, and with a backend that answers,
\* generate_combined_summary returns a Summary labelled "All Channels" whose
\* message_count is n1+...+nk and whose provider_name is the backend that
\* produced the text.
C8_CombinedSummary ==
    (/\ o_pc = "done"
     /\ channel_ids # <<>>
     /\ SumSeq([i \in 1 .. Len(results) |-> Len(results[i].value[1])]) > 0
     /\ calls # <<>> => CallsWithText # {})
    => /\ o_result.kind = "summary"
       /\ o_result.channel_name = "All Channels"
       /\ o_result.message_count
            = SumSeq([i \in 1 .. Len(results) |-> Len(results[i].value[1])])
       /\ \E i \in CallsWithText : o_result.provider_name = calls[i].provider

\* C18: generate_all_channel_summaries over several configured channels
\* returns a mapping with one entry per configured channel, absent for a
\* channel whose collection is empty or whose summarization failed, and no
\* exception escapes.
C18_OneEntryPerChannel ==
    (o_pc = "done_all" /\ Len(channel_ids) >= 1)
    => /\ o_result.kind = "dict"
       /\ Len(o_result.entries) = Len(channel_ids)
       /\ \A i \in 1 .. Len(channel_ids) :
             /\ o_result.entries[i].channel_id = channel_ids[i]
             /\ o_result.entries[i].summary = NoneValue
                <=> \/ results[i].value[1] = <<>>
                    \/ ~\E k \in CallsWithText :
                          calls[k].label = channel_ids[i]

(***************************************************************************)
(* Properties of the fetcher.                                              *)
(***************************************************************************)
\* C9: on a 429 response (with a JSON body) the fetcher sleeps for the
\* body's retry_after, 1 s when the field is missing, then re-issues the
\* same endpoint, method and payload, and the caller gets the outcome of the
\* re-issued request.
C9_RateLimitedRetry ==
    /\ \A i \in 1 .. Len(sent) : sent[i].req = sent[1].req
    /\ (f_pc = "call" /\ sent # <<>>)
       => /\ response.kind = "response"
          /\ response.status = 429
          /\ Last(slept) = [why |-> "retry_after",
                            secs |-> IF response.body.retry_after = Absent
                                     THEN 2 ELSE response.body.retry_after]
          /\ clock = Last(sent).at + Last(slept).secs
    /\ (f_pc = "done" /\ response.kind = "response" /\ response.status = 429)
       => ~response.body.json
    /\ (f_pc = "done" /\ Len(sent) >= 2)
       => f_result = IF /\ response.kind = "response"
                        /\ response.status = 200
                        /\ response.body.json
                     THEN [kind |-> "json", body |-> response.body]
                     ELSE NoneValue

\* C9 witness: a POST answered 429 without retry_after, slept on for 1 s,
\* re-sent and answered with data
C9_Witness ==
    /\ f_pc = "done"
    /\ Len(sent) = 2
    /\ sent[1].req.method = "POST"
    /\ sent[2].at >= sent[1].at + 2
    /\ \E i \in 1 .. Len(slept) : slept[i] = [why |-> "retry_after", secs |-> 2]
    /\ f_result.kind = "json"

\* C10: one request() call sends at most two HTTP requests.
C10_AtMostTwoSends == Len(sent) <= 2

\* C11: request() returns the failure value None, and the list-returning
\* wrappers an empty list, when the method is unsupported, when the transport
\* raises, when the status is neither 200 nor 429, and when the body of a 200
\* (or of a 429) does not parse; the call always ends with a value.
C11_FailureIsNone ==
    /\ f_result = NoneValue \/ f_result.kind = "json"
    /\ (f_pc = "done"
        /\ \/ f_req.method \notin {"GET", "POST"}
           \/ response = RaisedException
           \/ /\ response.kind = "response"
              /\ \/ response.status \notin {200, 429}
                 \/ ~response.body.json)
       => /\ f_result = NoneValue
          /\ GetMessages = EmptyList
    /\ (f_pc = "done" /\ f_req.method \notin {"GET", "POST"}) => sent = <<>>

\* C11 witness: a call answered with status 500 and a JSON error body has
\* returned None, which get_messages turns into an empty list
C11_Witness ==
    /\ f_pc = "done"
    /\ response.kind = "response"
    /\ response.status = 500
    /\ response.body.json
    /\ f_result = NoneValue
    /\ GetMessages = EmptyList

\* C12: every send, first or retry, attempted while rate_limit_remaining <= 1
\* goes on the wire no earlier than rate_limit_reset + 0.5 s; attempted with
\* rate_limit_remaining > 1 it goes on the wire at once.
C12_RateLimitWait ==
    [][Len(sent') = Len(sent) + 1
       => IF rate_limit_remaining <= 1
          THEN /\ Last(sent').at >= rate_limit_reset + 1
               /\ Last(sent').at >= clock + 1
          ELSE Last(sent').at = clock]_vars

\* C12 witness: a 429 retry that waited for the reset announced by the 429
\* response (remaining 1, reset 1.5 s ahead, retry_after 1 s)
C12_Witness ==
    /\ Len(sent) = 2
    /\ \E i \in 1 .. Len(slept) :
          /\ slept[i].why = "rate_limit"
          /\ i > 1
          /\ slept[i - 1] = [why |-> "retry_after", secs |-> 2]
          /\ slept[i].secs = 2
    /\ sent[2].at = sent[1].at + 4

\* C13: after every response, whatever its status, rate_limit_remaining and
\* rate_limit_reset are the values of its headers, 5 and now + 5 s for a
\* header that is absent.
C13_RateLimitStateFromHeaders ==
    response.kind = "response"
    => /\ rate_limit_remaining
            = (IF response.remaining = Absent THEN 5 ELSE response.remaining)
       /\ rate_limit_reset
            = Last(sent).at
              + (IF response.reset = Absent THEN 10 ELSE response.reset)

\* C13 witness: a second call on a client whose counter was 1, answered with
\* an error status carrying no rate-limit header
C13_Witness ==
    /\ f_calls = 2
    /\ f_pc = "done"
    /\ response.kind = "response"
    /\ response.status = 500
    /\ response.remaining = Absent
    /\ response.reset = Absent
    /\ \E i \in 1 .. Len(slept) : slept[i].why = "rate_limit"
    /\ rate_limit_remaining = 5
    /\ rate_limit_reset = clock + 10

(***************************************************************************)
(* Properties of the collector under exceptions and malformed records.     *)
(***************************************************************************)
\* the step in which a page request of the paging loop is answered with a
\* non-empty page
PageServed ==
    /\ c_pc = "paging"
    /\ thread_requests' = thread_requests + 1
    /\ thread_batch' # <<>>

\* C14: when an exception is raised while a thread is being paged,
\* collect_messages returns the main-channel messages and the thread results
\* accumulated before the exception.
C14_ExceptionKeepsAccumulated ==
    [][(PageServed /\ c_pc' = "done")
       => /\ c_result'.kind = "tuple"
          /\ c_result'.messages = all_messages
          /\ c_result'.thread_data = thread_data]_vars

\* C15: a page holding a record whose timestamp does not parse, at any
\* position, does not end the collection: the record is skipped and the
\* page's well-formed records with text that are in the window are collected.
C15_MalformedRecordSkipped ==
    [][(/\ PageServed
        /\ \E i \in 1 .. Len(thread_batch') :
              thread_batch'[i].timestamp = BadTimestamp)
       => /\ c_pc' # "done"
          /\ \A i \in 1 .. Len(thread_batch') :
                (/\ thread_batch'[i].timestamp # BadTimestamp
                 /\ thread_batch'[i].timestamp >= time_threshold
                 /\ thread_batch'[i].content # "")
                => \E k \in 1 .. Len(thread_messages') :
                      thread_messages'[k].id = thread_batch'[i].id]_vars

\* C17: every message of every list the collector holds or returns has a
\* timestamp >= the threshold, whatever the order of the records in a page.
C17_TimestampsInWindow ==
    /\ \A t \in 1 .. Len(thread_data) :
          \A k \in 1 .. Len(thread_data[t].messages) :
             thread_data[t].messages[k].timestamp >= time_threshold
    /\ c_pc = "done"
       => /\ \A k \in 1 .. Len(c_result.messages) :
                c_result.messages[k].timestamp >= time_threshold
          /\ \A t \in 1 .. Len(c_result.thread_data) :
                \A k \in 1 .. Len(c_result.thread_data[t].messages) :
                   c_result.thread_data[t].messages[k].timestamp
                      >= time_threshold

(***************************************************************************)
(* Properties of _convert_to_message_model.                                *)
(***************************************************************************)
\* the records of a page that have text and a timestamp that is missing or
\* parses
Convertible(page) ==
    SelectSeq(page, LAMBDA r : /\ "content" \in DOMAIN r
                               /\ r.content # ""
                               /\ ("timestamp" \in DOMAIN r
                                   => r.timestamp # BadTimestamp))

\* C16: a raw record whose content is empty or missing yields no message, so
\* every collected message has non-empty content; a record with text is
\* kept, with username "Unknown" and user id "0" in place of an author name
\* or id that is missing.
C16_EmptyContentDropped ==
    n_pc = "done"
    => /\ \A k \in 1 .. Len(n_list) : n_list[k].content # ""
       /\ Len(n_list) = Len(Convertible(n_page))
       /\ \A k \in 1 .. Len(n_list) :
             LET r == Convertible(n_page)[k]
             IN  /\ n_list[k].content = r.content
                 /\ n_list[k].username
                      = (IF "author" \in DOMAIN r
                            /\ "username" \in DOMAIN r.author
                         THEN r.author.username ELSE "Unknown")
                 /\ n_list[k].user_id
                      = (IF "author" \in DOMAIN r /\ "id" \in DOMAIN r.author
                         THEN r.author.id ELSE "0")

\* C16 witness: of a page of two records, the one without content was
\* dropped and the one with text but without author was kept with the
\* placeholders
C16_Witness ==
    /\ n_pc = "done"
    /\ Len(n_page) = 2
    /\ "content" \notin DOMAIN n_page[1]
    /\ "author" \notin DOMAIN n_page[2]
    /\ Len(n_list) = 1
    /\ n_list[1].username = "Unknown"
    /\ n_list[1].user_id = "0"
    /\ n_list[1].content = "hi"

(***************************************************************************)
(* Properties of the scheduler.                                            *)
(***************************************************************************)
\* the exceptions of an execution that reached the handler of
\* generate_and_post_summaries
Propagated(t) ==
    SelectSeq(t_raised[t],
              LAMBDA e : e.caught_in = "generate_and_post_summaries")

\* C19 as stated: an execution in which an exception was raised, wherever
\* it was raised, has made exactly one post_error call carrying the text of
\* an exception by the time it returns.
C19_AnyExceptionNotified ==
    \A t \in Tasks :
       (t_pc[t] = "done" /\ t_raised[t] # <<>>)
       => /\ Len(t_errors[t]) = 1
          /\ \E k \in 1 .. Len(t_raised[t]) :
                t_errors[t][1].text = t_raised[t][k].error

\* C19 amended: an execution makes one post_error call, carrying the
\* exception's text, for the exception that reached the handler of
\* generate_and_post_summaries, and none when every exception was handled
\* inside the collection; it is delivered at most once and the execution
\* then returns.
C19_PropagatedExceptionNotified ==
    \A t \in Tasks :
       /\ Len(Propagated(t)) <= 1
       /\ t_pc[t] \in {"post_error", "done"}
          => /\ Len(t_errors[t]) = Len(Propagated(t))
             /\ Len(t_errors[t]) = 1
                => t_errors[t][1]
                     = [prefix |-> "Error in scheduled summary generation: ",
                        text |-> Propagated(t)[1].error]
       /\ t_pc[t] = "post_error" => Len(t_errors[t]) = 1
       /\ Len(SelectSeq(destination,
                        LAMBDA m : m.task = t /\ m.kind = "error"))
             <= t_runs[t]

\* C19 witness: the cron execution met an exception handled inside the
\* collection and then one that reached its handler, posted the latter and
\* returned
C19_Witness ==
    /\ t_pc["cron"] = "done"
    /\ Len(t_raised["cron"]) = 2
    /\ t_raised["cron"][1].caught_in = "collect_messages"
    /\ Len(t_errors["cron"]) = 1
    /\ t_errors["cron"][1].text = "ValueError"
    /\ \E k \in 1 .. Len(destination) :
          destination[k] = [task |-> "cron", kind |-> "error",
                            body |-> t_errors["cron"][1]]

\* C20: the execution started by the cron trigger and the one started by
\* run_now are never in progress at the same time.
C20_NoConcurrentRuns == ~(InProgress("cron") /\ InProgress("run_now"))

(***************************************************************************)
(* Properties of generate_channel_summary and of its backend calls.        *)
(***************************************************************************)
\* the labels of the batches handed to a backend, and the calls made for one
BatchLabels == {calls[i].label : i \in 1 .. Len(calls)}
CallsFor(label) == {i \in 1 .. Len(calls) : calls[i].label = label}

\* the threads for which a backend call returned text, in collection order
SummarizedThread(t) == \E k \in CallsWithText : calls[k].label = t.name
SummarizedThreads == SelectSeq(g_thread_data, SummarizedThread)

\* C30: when the main channel's list and every thread's list are empty,
\* generate_channel_summary returns absent without calling any backend.
C30_NothingCollectedIsAbsent ==
    (/\ g_pc = "done"
     /\ g_messages = <<>>
     /\ \A i \in 1 .. Len(g_thread_data) : g_thread_data[i].messages = <<>>)
    => g_result = NoneValue /\ calls = <<>>

\* C30 witness: a channel with two active threads, all three lists empty
C30_Witness ==
    /\ g_pc = "done"
    /\ g_messages = <<>>
    /\ Len(g_thread_data) = 2
    /\ \A i \in 1 .. Len(g_thread_data) : g_thread_data[i].messages = <<>>
    /\ g_result = NoneValue
    /\ calls = <<>>

\* C29: for each batch, _generate_summary_with_fallback calls the primary
\* backend exactly once and the fallback backend at most once, the fallback
\* only after the primary returned no usable text (and only with a fallback
\* key), and the fallback is the other provider, never the primary.
C29_PrimaryOnceFallbackAtMostOnce ==
    \A label \in BatchLabels :
       LET made == CallsFor(label)
           first == CHOOSE i \in made : \A j \in made : i <= j
       IN  /\ Cardinality({i \in made : calls[i].provider = summarizer}) = 1
           /\ Cardinality(made) <= 2
           /\ calls[first].provider = summarizer
           /\ \A i \in made \ {first} :
                 /\ i = first + 1
                 /\ ~calls[first].text
                 /\ fallback_key
                 /\ calls[i].provider \in Providers \ {summarizer}

\* C29 witness: the primary gave nothing for the main channel and the
\* fallback was called for it once and answered
C29_Witness ==
    /\ g_pc = "done"
    /\ Cardinality(MainCalls) = 2
    /\ \E i \in MainCalls :
          /\ calls[i].provider # summarizer
          /\ calls[i].text
          /\ ~calls[i - 1].text
    /\ g_result.kind = "summary"

\* C22: message_count of the Summary returned by generate_channel_summary is
\* the number of main-channel messages plus the number of messages of each
\* thread included in the summary; a thread whose summarization failed is
\* not in the content and does not count.
C22_CountsIncludedThreads ==
    (g_pc = "done" /\ g_result.kind = "summary")
    => g_result.message_count
         = Len(g_messages)
           + SumSeq([i \in 1 .. Len(g_thread_data) |->
                       IF SummarizedThread(g_thread_data[i])
                       THEN Len(g_thread_data[i].messages) ELSE 0])

\* C23: the content of the Summary is the main summary text a backend
\* produced (nothing when none was produced), followed, exactly when at
\* least one thread was summarized, by one "## Thread Summaries" header and
\* one "### name" subsection per summarized thread, in collection order.
C23_ContentStructure ==
    (g_pc = "done" /\ g_result.kind = "summary")
    => LET content == g_result.content
           produced == MainCalls \cap CallsWithText
           main == IF produced = {} THEN <<>>
                   ELSE <<Generated(calls[CHOOSE k \in produced : TRUE].provider,
                                    "channel")>>
           n == Len(SummarizedThreads)
           at(j) == Len(main) + 1 + 3 * (j - 1)
       IN  IF n = 0 THEN content = main
           ELSE /\ Len(content) = Len(main) + 1 + 3 * n
                /\ SubSeq(content, 1, Len(main)) = main
                /\ content[Len(main) + 1]
                     \in {Lit("\n\n## Thread Summaries\n"),
                          Lit("## Thread Summaries\n")}
                /\ \A j \in 1 .. n :
                      /\ content[at(j) + 1] = Heading(SummarizedThreads[j].name)
                      /\ content[at(j) + 2].kind = "generated"
                      /\ content[at(j) + 2].of = SummarizedThreads[j].name
                      /\ content[at(j) + 3] = Lit("\n")

(***************************************************************************)
(* Properties of the collection orchestrator and of the per-channel runs.  *)
(***************************************************************************)
\* the calls made for a batch, in the order they were made
CallSeqFor(label) == SelectSeq(calls, LAMBDA c : c.label = label)

\* C21: the entry generate_all_channel_summaries returns for a configured
\* channel equals what generate_channel_summary returns for that channel on
\* the same collected data and the same backend answers: same content
\* (thread summaries included), message_count, provider_name and the same
\* absent cases.
C21_EntryIsChannelSummary ==
    (o_pc = "done_all" /\ channel_ids # <<>>)
    => /\ o_result.kind = "dict"
       /\ Len(o_result.entries) = Len(results)
       /\ \A i \in 1 .. Len(results) :
             LET id == results[i].channel_id
                 msgs == results[i].value[1]
                 name == results[i].value[2]
                 threads == results[i].value[3]
             IN  \A mainOutcome \in BOOLEAN \X BOOLEAN,
                    threadOutcomes \in [1 .. Len(threads)
                                          -> BOOLEAN \X BOOLEAN] :
                    (msgs # <<>>
                     => GenerateSummaryWithFallback(summarizer, fallback_key,
                            id, mainOutcome[1], mainOutcome[2]).calls
                          = CallSeqFor(id))
                    => o_result.entries[i].summary
                         = ChannelSummaryOf(summarizer, fallback_key, id, id,
                               msgs, name, threads, mainOutcome,
                               threadOutcomes)

\* C25: collect_from_config returns one entry per configured channel id,
\* empty collections included, when channel ids are configured; otherwise it
\* collects the guild's text channels without raising and returns entries
\* only for channels that yielded at least one message.
C25_ExplicitIdsElseGuild ==
    o_pc \in {"collected", "done", "done_all"}
    => IF channel_ids # <<>>
       THEN /\ Len(results) = Len(channel_ids)
            /\ \A i \in 1 .. Len(results) :
                  results[i].channel_id = channel_ids[i]
       ELSE /\ o_result # ValueError
            /\ \A i \in 1 .. Len(results) :
                  /\ \E k \in 1 .. Len(guild_channels) :
                        results[i].channel_id = guild_channels[k]
                  /\ results[i].value[1] # <<>>

(***************************************************************************)
(* Properties of the thread collection.                                    *)
(***************************************************************************)
\* the channel's active threads whose id is to be collected, in the order
\* of the active-threads list
ConfiguredThread(t) == t \in config.thread_ids
ConfiguredThreads == SelectSeq(channel_threads, ConfiguredThread)

\* the collection ended early: a page raised inside the paging loop, or the
\* active-threads request was sent and not answered with the list
CutShort ==
    \/ thread_batch # <<>>
    \/ config.kind = "thread_ids" /\ active_threads # channel_threads

\* C24: when a non-empty set of thread ids is to be collected, a collection
\* that is not cut short returns exactly one (messages, name) entry for each
\* active thread of the channel whose id is in the set, in the order of the
\* active-threads list, and none for any other thread; this holds for every
\* reader, the one that main() constructs included.
C24_ConfiguredThreadsCollected ==
    (c_pc = "done" /\ config.thread_ids # {} /\ ~CutShort)
    => /\ Len(c_result.thread_data) = Len(ConfiguredThreads)
       /\ \A i \in 1 .. Len(ConfiguredThreads) :
             c_result.thread_data[i].name = ThreadName(ConfiguredThreads[i])

(***************************************************************************)
(* Properties of the prompt selection and of the prompt text.              *)
(***************************************************************************)
\* C26: the prompt used is the one named by the explicit prompt_type
\* whenever one is passed, whatever the channel label (this covers every
\* value _detect_prompt_type returns); only without a prompt_type is the
\* prompt inferred from keywords in the label, and it is the general prompt
\* when no keyword matches.
C26_ExplicitPromptTypeWins ==
    p_pc # "idle"
    => IF p_prompt_type # None
       THEN /\ p_prompts = p_prompt_type
            /\ \A label \in Labels :
                  GetPrompts(label, p_prompt_type) = p_prompts
       ELSE /\ p_prompts \in PromptKeys
            /\ p_prompts = "defi" => Mentions(p_channel_name, DefiTerms)
            /\ p_prompts = "crypto" => Mentions(p_channel_name, CryptoTerms)
            /\ ~Mentions(p_channel_name, DefiTerms \cup CryptoTerms)
               => p_prompts = "general"

C28_LinesInTimestampOrder ==
    m_pc = "done"
    => LET n == Len(m_messages)
           reordered(f) == [i \in 1 .. n |-> m_messages[f[i]]]
       IN  /\ Len(m_text) = n
           /\ \E f \in Permutations(1 .. n) :
                 /\ \A i \in 1 .. n : m_text[i] = FormattedContent(reordered(f)[i])
                 /\ \A i, j \in 1 .. n :
                       i < j => reordered(f)[i].timestamp
                                  <= reordered(f)[j].timestamp
           /\ (\A i, j \in 1 .. n :
                  i # j => m_messages[i].timestamp # m_messages[j].timestamp)
              => \A f \in Permutations(1 .. n) :
                    FormatMessagesForPrompt(reordered(f)) = m_text

\* C28 witness: three messages handed over newest first, with distinct
\* timestamps, come out oldest first
C28_Witness ==
    /\ m_pc = "done"
    /\ Len(m_messages) = 3
    /\ m_messages[1].timestamp > m_messages[2].timestamp
    /\ m_messages[2].timestamp > m_messages[3].timestamp
    /\ m_text = <<FormattedContent(m_messages[3]),
                  FormattedContent(m_messages[2]),
                  FormattedContent(m_messages[1])>>

(***************************************************************************)
(* Frame properties of the fetcher.                                        *)
(***************************************************************************)
\* C40: the rate-limit state (rate_limit_remaining, rate_limit_reset)
\* changes only in a step in which a request was sent and a response was
\* received: a frame called with an unsupported method sends nothing and
\* leaves the state unchanged, and a send that raises leaves the state as it
\* was before the send.
C40_StateChangesOnlyOnResponse ==
    [][/\ (\/ rate_limit_remaining' # rate_limit_remaining
           \/ rate_limit_reset' # rate_limit_reset)
          => /\ response'.kind = "response"
             /\ Len(sent') = Len(sent) + 1
       /\ (f_pc = "call" /\ f_req.method \notin {"GET", "POST"})
          => /\ sent' = sent
             /\ rate_limit_remaining' = rate_limit_remaining
             /\ rate_limit_reset' = rate_limit_reset
       /\ (f_pc = "call" /\ response' = RaisedException)
          => /\ rate_limit_remaining' = rate_limit_remaining
             /\ rate_limit_reset' = rate_limit_reset]_vars

\* C40 witness: a 429 answer changed the state, and the send of the retry
\* raised and left it as the 429 answer had set it
C40_Witness ==
    /\ f_pc = "done"
    /\ Len(sent) = 2
    /\ response = RaisedException
    /\ rate_limit_remaining = 1
    /\ rate_limit_remaining # DEFAULT_REMAINING

\* C35: when the primary backend yields no text for a batch and the other
\* provider's API key is not available, no fallback call is made for the
\* batch and the batch is reported absent: no text and no provider for the
\* main channel, no subsection for a thread.
C35_NoKeyNoFallback ==
    ~fallback_key
    => \A label \in BatchLabels :
          (\A i \in CallsFor(label) : ~calls[i].text)
          => /\ Cardinality(CallsFor(label)) = 1
             /\ \A i \in CallsFor(label) : calls[i].provider = summarizer
             /\ label = "channel"
                => /\ main_summary = <<>>
                   /\ g_index = 0 => provider_name = None
             /\ \A k \in 1 .. Len(thread_summaries) :
                   thread_summaries[k].name # label

\* C35 witness: without a fallback key the primary failed on the main
\* channel and on a thread, one call each, and the run returned absent
C35_Witness ==
    /\ g_pc = "done"
    /\ ~fallback_key
    /\ g_messages # <<>>
    /\ Len(calls) = 2
    /\ Cardinality(MainCalls) = 1
    /\ CallsWithText = {}
    /\ g_result = NoneValue

\* C32: every value of the mapping collect_from_config returns, with
\* configured channel ids and with a guild, is a pair (messages,
\* channel_name), and no step from collect_from_guild to
\* generate_all_channel_summaries and generate_combined_summary raises on
\* the arity of a tuple when at least one channel is collected.
C32_ValuesArePairs ==
    (/\ o_pc \in {"collected", "done", "done_all"}
     /\ channel_ids # <<>> \/ guild_channels # <<>>)
    => /\ \A i \in 1 .. Len(results) : UnpacksAsPair(results[i].value)
       /\ o_result # ValueError

(***************************************************************************)
(* Properties of the posting loop of generate_and_post_summaries.          *)
(***************************************************************************)
\* the entries of channel_summaries that hold a Summary, and the
\* post_summary calls made for per-channel summaries
NonAbsent(t) == {i \in 1 .. Len(t_summaries[t]) :
                    t_summaries[t][i].summary # NoneValue}
PerChannelPosts(t) == SelectSeq(t_posted[t], LAMBDA c : c.summary # 0)

\* every Summary of channel_summaries was passed to post_summary once, in
\* the order of the mapping
AllPosted(t) ==
    LET per == PerChannelPosts(t)
    IN  /\ Len(per) = Cardinality(NonAbsent(t))
        /\ \A k \in 1 .. Len(per) : per[k].summary \in NonAbsent(t)
        /\ \A k, l \in 1 .. Len(per) : k < l => per[k].summary < per[l].summary

C39_AbsentOrUnpostedDoesNotStop ==
    \A t \in Tasks :
       (/\ t_pc[t] = "done"
        /\ Len(t_collected[t]) > 1
        /\ \/ \E i \in 1 .. Len(t_collected[t]) : t_collected[t][i] = <<>>
           \/ \E k \in 1 .. Len(t_posted[t]) : t_posted[t][k].returned = "False")
       => /\ t_errors[t] = <<>>
          /\ AllPosted(t)
          /\ \A i \in 1 .. Len(t_collected[t]) :
                t_collected[t][i] # <<>>
                => \E k \in 1 .. Len(t_summaries[t]) :
                      t_summaries[t][k].channel_id
                        = IF channel_ids # <<>> THEN channel_ids[i]
                          ELSE guild_channels[i]

(***************************************************************************)
(* Properties of the paging loop.                                          *)
(***************************************************************************)
\* C33: a page request that fails in the middle of paging is treated like
\* an empty page: the paging of that thread stops, the messages of the
\* pages fetched before are kept as the thread's entry, and the remaining
\* threads of the channel are still collected.
C33_FailedPageIsEmptyPage ==
    /\ [][(c_pc = "paging" /\ failed_pages' = failed_pages + 1)
          => /\ c_pc' = "threads"
             /\ thread_messages' = thread_messages
             /\ all_messages' = all_messages
             /\ thread_data'
                  = Append(thread_data,
                       [messages |-> thread_messages,
                        name |-> ThreadName(active_threads[thread_index])])]_vars
    /\ []((c_pc = "done" /\ failed_pages > 0 /\ thread_batch = <<>>)
          => /\ Len(c_result.thread_data) = Len(ConfiguredThreads)
             /\ \A i \in 1 .. Len(ConfiguredThreads) :
                   c_result.thread_data[i].name
                     = ThreadName(ConfiguredThreads[i]))

\* C33 witness: the second page request of the first thread failed; the
\* first page's messages are in its entry and the second thread was
\* collected after it
C33_Witness ==
    /\ c_pc = "done"
    /\ failed_pages = 1
    /\ Len(c_result.thread_data) = 2
    /\ c_result.thread_data[1].messages # <<>>
    /\ c_result.thread_data[2].messages # <<>>

\* a source that honours the cursor: history holds a thread's records newest
\* first, and a page is the PageLimit records that follow the cursor's
\* record (the newest ones without a cursor)
SourcePage(history, cursor) ==
    LET start == IF cursor = NoId THEN 0
                 ELSE CHOOSE i \in 1 .. Len(history) : history[i].id = cursor
        end == IF start + PageLimit <= Len(history) THEN start + PageLimit
               ELSE Len(history)
    IN  SubSeq(history, start + 1, end)

\* the records requested by paging history with the loop's cursors, within
\* requests page requests
RECURSIVE Requested(_, _, _)
Requested(history, cursor, requests) ==
    LET page == SourcePage(history, cursor)
    IN  IF requests = 0 \/ page = <<>> THEN <<>>
        ELSE page \o Requested(history, NextCursor(page), requests - 1)

\* histories of records with distinct ids, newest first
OrderedHistories ==
    {h \in SeqsUpTo(RawMessages, PageLimit + 1) :
        \A i, j \in 1 .. Len(h) : i < j => h[i].id > h[j].id}

\* C34: the first page request of a thread carries no before-cursor and
\* every later one carries the id of the last (oldest) record of the page
\* fetched just before it; against a source that honours the cursor the
\* pages requested are exactly the history, no record twice and none
\* skipped.
C34_CursorIsLastOfPrecedingPage ==
    /\ [][(c_pc = "paging" /\ thread_requests' = thread_requests + 1)
          => before' = IF thread_requests = 0 THEN NoId
                       ELSE Last(thread_batch).id]_vars
    /\ [](\A h \in OrderedHistories : Requested(h, NoId, Len(h) + 1) = h)

\* C34 witness: the second page request of a thread was made with the id of
\* the oldest record of the first page
C34_Witness ==
    /\ c_pc = "paging"
    /\ thread_requests = 2
    /\ before # NoId
    /\ Len(thread_batch) = PageLimit
    /\ before # Last(thread_batch).id

\* C36: a get_prompts call with override_system_prompt or
\* override_user_prompt leaves the shared SPECIALIZED_PROMPTS table as the
\* class defines it, and a call without overrides returns the built-in
\* prompts of the selected key whatever calls preceded it.
C36_OverridesLeaveTableUnchanged ==
    /\ SPECIALIZED_PROMPTS = BuiltInPrompts
    /\ (/\ o_calls > 0
        /\ o_last.override_system_prompt = None
        /\ o_last.override_user_prompt = None)
       => o_last.returned = BuiltInPrompts[o_last.key]

(***************************************************************************)
(* Properties of the scheduler's life cycle.                               *)
(***************************************************************************)
\* C37: for every order of on-ready callbacks and shutdown signals, start()
\* while running registers no further cron job and stop() while not running
\* does nothing; the cron job is registered and the scheduler started
\* exactly once per transition from not running to running; is_running is
\* true exactly between a start and the next stop.
C37_StartStopIdempotent ==
    /\ [][/\ (is_running /\ on_ready_calls' = on_ready_calls + 1)
             => /\ add_job_calls' = add_job_calls
                /\ scheduler_starts' = scheduler_starts
                /\ is_running'
          /\ (~is_running /\ signals' = signals + 1)
             => /\ shutdown_calls' = shutdown_calls
                /\ scheduler_state' = scheduler_state
                /\ ~is_running'
          /\ (~is_running /\ is_running')
             => /\ add_job_calls' = add_job_calls + 1
                /\ scheduler_starts' = scheduler_starts + 1
          /\ (~is_running /\ on_ready_calls' = on_ready_calls + 1)
             => is_running'
          /\ (is_running /\ signals' = signals + 1)
             => /\ ~is_running'
                /\ shutdown_calls' = shutdown_calls + 1
          /\ ~(~is_running /\ is_running')
             => /\ add_job_calls' = add_job_calls
                /\ scheduler_starts' = scheduler_starts]_vars
    /\ [](/\ is_running <=> scheduler_state = "running"
          /\ add_job_calls = scheduler_starts
          /\ scheduler_starts - shutdown_calls
               = IF is_running THEN 1 ELSE 0)

\* C37 witness: started, started again while running, stopped, stopped
\* again while not running, and started once more
C37_Witness ==
    /\ on_ready_calls = 3
    /\ signals = 2
    /\ add_job_calls = 2
    /\ shutdown_calls = 1
    /\ is_running

(***************************************************************************)
(* Properties of post_summary.                                             *)
(***************************************************************************)
\* C38: post_summary never raises: every call that ends, whatever raised
\* inside it, ends by returning True or False; at most one of the three
\* approaches (cached channel, fetched channel, direct HTTP request
\* answered with 200) delivers the summary; and it returns True exactly
\* when one of them delivered.
C38_PostSummaryReturnsDelivery ==
    /\ w_pc = "returned" => w_result \in {"True", "False"}
    /\ w_pc # "returned" => w_result = "pending"
    /\ Cardinality(w_delivered) <= 1
    /\ w_pc = "returned" => (w_result = "True" <=> w_delivered # {})
    /\ success <=> w_delivered # {}

\* C38 witness: the channel was not cached, the send on the fetched channel
\* raised, and the direct request delivered: the call returned True
C38_Witness ==
    /\ w_pc = "returned"
    /\ w_result = "True"
    /\ w_delivered = {"http"}
    /\ "send_fetched" \in w_exceptions

====
